---- MODULE Spec2Model ----
(***************************************************************************)
(* Productivity Tracker extension: the background tracker (background.js,  *)
(* kept here as src/unnamed/part_000), its chrome.storage.local day        *)
(* buckets, the remote send, the periodic cleanup, and the category        *)
(* editor of the dashboard (src/extension/dashboard/dashboard.js).         *)
(*                                                                         *)
(* JavaScript runs one task at a time.  An async listener runs until it    *)
(* awaits a promise that the browser settles later (chrome.tabs.*,         *)
(* chrome.storage.local.*, fetch, chrome.runtime.sendMessage); another     *)
(* listener may run while it is suspended there.  Every action below is    *)
(* one such run-to-suspension segment.  An await of an async function      *)
(* that returns without suspending only queues a microtask, which runs     *)
(* before any other task, so it does not end a segment.                    *)
(***************************************************************************)
EXTENDS Integers, Sequences, FiniteSets, TLC

\* ------------------------------------------------------------------ bounds
MaxEvents == 3        \* browser events delivered in one behaviour
MaxTicks  == 2        \* times the clock is seen to have advanced
MaxDays   == 2        \* midnights that pass in one behaviour
MaxEdits  == 3        \* invocations of the category editor in one behaviour
MaxListLen == 2       \* length of a category list drawn for a classification
MaxEntries == 2       \* documents inserted in one behaviour of the backend
MaxListed == 3        \* stored entries of the small collections that are listed
ManyEntries == 120    \* stored entries of the large collection that is listed

\* --------------------------------------------------------------- constants
MsPerSecond == 1000   \* Math.floor(timeSpentMs / 1000)
SaveThreshold == 1    \* if (timeSpent > 1)
RetentionDays == 30   \* cutoff.setDate(cutoff.getDate() - 30)
MaxBatch == 100       \* body('entries').isArray({ min: 1, max: 100 })

Null == -1            \* JavaScript null for tab ids, times and session ids

VARIABLES
  currentTab,   \* let currentTab = null   (a tab record, or NoTab)
  startTime,    \* let startTime = null    (ms, or Null)
  isTracking,   \* let isTracking = false
  now,          \* the last reading of Date.now(), in ms since UTC midnight
  today,        \* the UTC calendar day of Date.now(), as a day number
  categories,   \* chrome.storage.local key 'categories' (or NoCategories)
  timeData,     \* chrome.storage.local keys 'timeData_<date>': date -> bucket
  handlers,     \* the listener invocations, in delivery order
  activeTab,    \* the active tab of the browser's window
  lastOutcome,  \* what sendToBackend logged last: the outcome of its fetch
  closed,       \* history: the sessions cleared by stopTracking
  curSid,       \* history: number of the open session, Null when none
  nSessions,    \* history: sessions opened so far
  trackedMs,    \* history: wall-clock ms during which a session was open
  ticks,        \* history: times the clock was seen to have advanced
  editors,      \* dashboard: invocations of add/removeWebsiteFromCategory
  cleanup,      \* the cleanupOldData invocation
  classify,     \* last getWebsiteCategory query and its answer
  db,           \* backend: the documents of collection 'time_entries'
  nextId,       \* backend: the _id the next inserted document gets
  res,          \* backend: the last request served and its response
  dashboard     \* dashboard page: storage key 'timeEntries' and what it shows

vars == << currentTab, startTime, isTracking, now, today, categories, timeData,
           handlers, activeTab, lastOutcome, closed, curSid, nSessions,
           trackedMs, ticks, editors, cleanup, classify, db, nextId, res,
           dashboard >>

trackerVars == << currentTab, startTime, isTracking >>
historyVars == << closed, curSid, nSessions, trackedMs >>
backendVars == << db, nextId, res >>

\* ------------------------------------------------------------ string helpers
\* String.prototype.includes
Includes(s, t) ==
  \E i \in 1..(Len(s) - Len(t) + 1) : SubSeq(s, i, i + Len(t) - 1) = t

\* String.prototype.startsWith
StartsWith(s, t) == Len(s) >= Len(t) /\ SubSeq(s, 1, Len(t)) = t

\* first index at which t occurs in s from position from, 0 when none
IndexFrom(s, t, from) ==
  LET hits == { i \in from..(Len(s) - Len(t) + 1) : SubSeq(s, i, i + Len(t) - 1) = t }
  IN  IF hits = {} THEN 0 ELSE CHOOSE i \in hits : \A j \in hits : i <= j

SeqRange(s) == { s[i] : i \in 1..Len(s) }

\* Array.prototype.filter(site => site !== website)
RECURSIVE Without(_, _)
Without(list, website) ==
  IF list = << >> THEN << >>
  ELSE IF Head(list) = website THEN Without(Tail(list), website)
       ELSE << Head(list) >> \o Without(Tail(list), website)

\* ------------------------------------------------------------- the browser
Tabs == {1, 2}

\* the tabs of web pages and those of browser pages, of a page without a
\* url and of a page whose url new URL() cannot parse
Pages == 1..7

\* what chrome.tabs.get(tabId) resolves to
TabInfo(tabId) ==
  CASE tabId = 1 ->
         [id |-> 1, url |-> "https://www.github.com/a", title |-> "GitHub"]
    [] tabId = 2 ->
         [id |-> 2, url |-> "https://facebook.com/", title |-> "Facebook"]
    [] tabId = 3 ->
         [id |-> 3, url |-> "chrome://settings/", title |-> "Settings"]
    [] tabId = 4 ->
         [id |-> 4, url |-> "chrome-extension://abcdef/popup.html", title |-> "Popup"]
    [] tabId = 5 ->
         [id |-> 5, url |-> "devtools://devtools/inspector.html", title |-> "DevTools"]
    [] tabId = 6 ->
         [id |-> 6, url |-> "", title |-> "New Tab"]
    [] OTHER ->
         [id |-> 7, url |-> "http://", title |-> ""]

NoTab == [id |-> Null, url |-> "", title |-> ""]

\* new URL(url).hostname; "" stands for the TypeError of an unparsable URL
Hostname(url) ==
  LET sep == IndexFrom(url, "://", 1)
  IN  IF sep = 0 THEN ""
      ELSE LET start == sep + 3
               slash == IndexFrom(url, "/", start)
               stop  == IF slash = 0 THEN Len(url) ELSE slash - 1
           IN  SubSeq(url, start, stop)

\* getDomain(url): hostname without a leading "www.", the url itself on error
getDomain(url) ==
  LET host == Hostname(url)
  IN  IF host = "" THEN url
      ELSE IF StartsWith(host, "www.") THEN SubSeq(host, 5, Len(host))
      ELSE host

\* ------------------------------------------------------------- categories
defaultCategories ==
  [ productive |-> << "github.com", "stackoverflow.com", "docs.google.com",
                      "notion.so", "trello.com", "asana.com", "slack.com",
                      "zoom.us", "figma.com", "codepen.io",
                      "developer.mozilla.org", "w3schools.com" >>,
    unproductive |-> << "facebook.com", "twitter.com", "instagram.com",
                        "youtube.com", "reddit.com", "tiktok.com",
                        "netflix.com", "twitch.tv", "pinterest.com",
                        "snapchat.com" >> ]

\* result.categories || { productive: [], unproductive: [] }
emptyCategories == [productive |-> << >>, unproductive |-> << >>]
NoCategories == [productive |-> << "" >>, unproductive |-> << "" >>, absent |-> TRUE]
StoredCategories(c) == IF c = NoCategories THEN emptyCategories ELSE c

\* list.some(site => domain.includes(site))
SomeIncluded(list, domain) == \E i \in 1..Len(list) : Includes(domain, list[i])

\* getWebsiteCategory with the unproductive list looked at first
getWebsiteCategoryUnproductiveFirst(cats, domain) ==
  IF SomeIncluded(StoredCategories(cats).unproductive, domain) THEN "unproductive"
  ELSE IF SomeIncluded(StoredCategories(cats).productive, domain) THEN "productive"
  ELSE "neutral"

\* getWebsiteCategory(domain), cats being what storage holds under 'categories'
getWebsiteCategory(cats, domain) ==
  IF SomeIncluded(StoredCategories(cats).productive, domain) THEN "productive"
  ELSE IF SomeIncluded(StoredCategories(cats).unproductive, domain) THEN "unproductive"
  ELSE "neutral"

\* ------------------------------------------------------------ day buckets
EmptyBucket == [d \in {} |-> 0]

\* result[storageKey] || {}
BucketOf(store, key) == IF key \in DOMAIN store THEN store[key] ELSE EmptyBucket

\* the entry created on first observation of a domain (lines 113-121)
NewEntry(category, t, title, domain) ==
  [ totalTime |-> 0, visits |-> 0, category |-> category, lastVisit |-> t,
    title |-> IF title # "" THEN title ELSE domain ]

\* lines 123-125 with the increment of visits doubled
AccumulateTwice(data, domain, timeSpent, t) ==
  [ data EXCEPT ![domain] = [ @ EXCEPT !.totalTime = @ + timeSpent,
                                       !.visits = @ + 2,
                                       !.lastVisit = t ] ]

\* lines 123-125: totalTime += timeSpent; visits += 1; lastVisit = Date.now()
Accumulate(data, domain, timeSpent, t) ==
  [ data EXCEPT ![domain] = [ @ EXCEPT !.totalTime = @ + timeSpent,
                                       !.visits = @ + 1,
                                       !.lastVisit = t ] ]

\* chrome.storage.local.set({ [storageKey]: timeData })
StoreSet(store, key, data) ==
  [ k \in DOMAIN store \cup {key} |-> IF k = key THEN data ELSE store[k] ]

\* ---------------------------------------------------------------- cleanup
\* a Date: the UTC day number and the ms since that day's midnight
DateOf(day, ms) == [day |-> day, ms |-> ms]

\* date < cutoff on Dates
DateLess(a, b) == a.day < b.day \/ (a.day = b.day /\ a.ms < b.ms)

\* date <= cutoff
DateLessOrEqual(a, b) == a.day < b.day \/ (a.day = b.day /\ a.ms <= b.ms)

\* the keys of chrome.storage.local.get(null); the key of a day bucket is
\* 'timeData_' followed by the date that toISOString().split('T')[0] gave
\* (line 108-109), which new Date(...) parses back to that day's UTC midnight
BucketKey(day) == [name |-> "timeData_", date |-> day]
OtherKey(name) == [name |-> name, date |-> Null]
KeysOf(store, cats) ==
  { BucketKey(day) : day \in DOMAIN store }
    \cup (IF cats = NoCategories THEN {} ELSE { OtherKey("categories") })

\* const cutoff = new Date(); cutoff.setDate(cutoff.getDate() - 30)
Cutoff(day, ms) == DateOf(day - RetentionDays, ms)

\* the filter of lines 228-234 with date <= cutoff
ToRemoveInclusive(keys, cutoff) ==
  { key \in keys :
      IF StartsWith(key.name, "timeData_")
      THEN DateLessOrEqual(DateOf(key.date, 0), cutoff)
      ELSE FALSE }

\* lines 228-234: the keys that start with 'timeData_' and whose date < cutoff
ToRemove(keys, cutoff) ==
  { key \in keys :
      IF StartsWith(key.name, "timeData_")
      THEN DateLess(DateOf(key.date, 0), cutoff)
      ELSE FALSE }

\* chrome.storage.local.remove(toRemove) on the day buckets
StoreRemove(store, keys) ==
  [ day \in { k \in DOMAIN store : BucketKey(k) \notin keys } |-> store[day] ]

\* cleanupOldData not running; toRemove and cutoff are its variables, before
\* is history: the buckets and categories at the time cutoff was taken;
\* failed says that a storage call rejected, and settled how the promise
\* that cleanupOldData returned to the alarm listener settled
NoCleanup ==
  [ pc |-> "idle", toRemove |-> {}, cutoff |-> DateOf(0, 0),
    before |-> [timeData |-> << >>, categories |-> NoCategories, at |-> DateOf(0, 0)],
    failed |-> FALSE, settled |-> "pending" ]

\* the last getWebsiteCategory(domain) asked and what it returned
NoClassify == [domain |-> "", answer |-> "none"]

\* the dashboard page not opened: stored is what chrome.storage.local holds
\* under 'timeEntries'; timeEntries is this.timeEntries and filteredEntries
\* the positions in it of the entries of this.filteredEntries, in their
\* order; dateFilter and typeFilter are the values of the two inputs
NoDashboard ==
  [ open |-> FALSE, stored |-> << >>, timeEntries |-> << >>,
    filteredEntries |-> << >>, currentTimeRange |-> "today",
    dateFilter |-> Null, typeFilter |-> "all", productivityScore |-> 0 ]

\* --------------------------------------------------------------- tracker
(***************************************************************************)
(* Time.  Date.now() never goes back.  A segment that reads the clock, or  *)
(* that changes the tracker, happens d ms after the previous such segment: *)
(* at once, a short moment later (under a second), one second later, or a  *)
(* long while later (long enough for stopTracking to save).  The time      *)
(* between two such segments is seen by nobody.                            *)
(***************************************************************************)
ShortMs == MsPerSecond \div 2
LongMs == (SaveThreshold + 1) * MsPerSecond
Delays == {0, ShortMs, MsPerSecond, LongMs}

\* the clock when d ms have passed since the last reading
After(d) == now + d

Elapse(d) ==
  /\ d # 0 => ticks < MaxTicks
  /\ ticks' = IF d = 0 THEN ticks ELSE ticks + 1
  /\ now' = After(d)
  /\ trackedMs' = IF isTracking THEN trackedMs + d ELSE trackedMs

\* timeSpent > 1 replaced by timeSpent >= 0
ShouldSaveAlways(timeSpent) == timeSpent >= 0

\* stopTracking line 96: if (timeSpent > 1)
ShouldSave(timeSpent) == timeSpent > SaveThreshold

\* Math.floor((endTime - startTime) / 1000)
TimeSpent(endTime, start) == (endTime - start) \div MsPerSecond

\* a listener invocation that has not reached its first statement; event is
\* the browser event delivered to it and run the function it runs:
\* "handleTabChange" or, on focus lost, "stopTracking"; pending is history:
\* a fetch of an earlier invocation had not settled when it was delivered.
\* domain, timeSpent, url and title are the arguments of its saveTimeEntry,
\* key and data the storageKey and timeData of that call; sid, ms and at are
\* history: the session it saves, that session's age and the time of the
\* call; wrote and attempts count its storage write and its fetches; failed
\* says that a storage call of its saveTimeEntry rejected, and settled how
\* the promise of that saveTimeEntry settled for the awaiting stopTracking
NewHandler(event, run, tabId) ==
  [ event |-> event, run |-> run, tabId |-> tabId,
    pending |-> \E j \in 1..Len(handlers) : handlers[j].pc = "fetch",
    pc |-> "start", sid |-> Null, ms |-> 0,
    at |-> Null,
    domain |-> "", timeSpent |-> 0, url |-> "", title |-> "", key |-> Null,
    data |-> EmptyBucket, category |-> "", wrote |-> FALSE, attempts |-> 0,
    failed |-> FALSE, settled |-> "pending" ]

\* where a listener continues when its stopTracking() has returned:
\* handleTabChange goes on to chrome.tabs.get, the focus-lost listener ends
AfterStop(h) == IF h.run = "stopTracking" THEN "done" ELSE "tabsGet"

\* the invocations with record rec as invocation i: a new one when i is new
Put(i, rec) ==
  IF i > Len(handlers) THEN Append(handlers, rec) ELSE [handlers EXCEPT ![i] = rec]

\* the negation of line 89: !isTracking || !currentTab || !startTime
Tracking == isTracking /\ currentTab # NoTab /\ startTime # Null

\* lines 100-102 without line 101: currentTab keeps the tab that was left
ClearTrackingKeepsTab(t) ==
  /\ isTracking' = FALSE
  /\ UNCHANGED currentTab
  /\ startTime' = Null
  /\ curSid' = Null
  /\ closed' = IF Tracking
               THEN Append(closed, [sid |-> curSid, ms |-> t - startTime])
               ELSE closed

\* lines 100-102 at time t, with the record of which session they end
ClearTracking(t) ==
  /\ isTracking' = FALSE
  /\ currentTab' = NoTab
  /\ startTime' = Null
  /\ curSid' = Null
  /\ closed' = IF Tracking
               THEN Append(closed, [sid |-> curSid, ms |-> t - startTime])
               ELSE closed

\* stopTracking() without the return of line 89: a null startTime counts as
\* 0 and a null currentTab as a tab without url
StopTrackingUnguarded(i, h, t) ==
  LET start == IF startTime = Null THEN 0 ELSE startTime
      timeSpent == TimeSpent(t, start)
  IN  IF ShouldSave(timeSpent)
      THEN /\ handlers' = Put(i,
                 [h EXCEPT !.pc = "saveGet", !.sid = curSid,
                           !.ms = t - start, !.at = t,
                           !.domain = getDomain(currentTab.url),
                           !.timeSpent = timeSpent,
                           !.url = currentTab.url,
                           !.title = currentTab.title, !.key = today])
           /\ UNCHANGED << trackerVars, closed, curSid >>
      ELSE /\ ClearTracking(t)
           /\ handlers' = Put(i, [h EXCEPT !.pc = AfterStop(h)])

\* stopTracking() at time t up to its first suspension, run by invocation i
\* whose record so far is h (lines 88-103, and saveTimeEntry lines 106-110)
StopTracking(i, h, t) ==
  IF ~Tracking
  THEN /\ handlers' = Put(i, [h EXCEPT !.pc = AfterStop(h)])
       /\ UNCHANGED << trackerVars, closed, curSid >>
  ELSE LET timeSpent == TimeSpent(t, startTime)
           domain == getDomain(currentTab.url)
       IN  IF ShouldSave(timeSpent)
           THEN /\ handlers' = Put(i,
                      [h EXCEPT !.pc = "saveGet", !.sid = curSid,
                                !.ms = t - startTime, !.at = t,
                                !.domain = domain, !.timeSpent = timeSpent,
                                !.url = currentTab.url,
                                !.title = currentTab.title, !.key = today])
                /\ UNCHANGED << trackerVars, closed, curSid >>
           ELSE /\ ClearTracking(t)
                /\ handlers' = Put(i, [h EXCEPT !.pc = AfterStop(h)])

otherVars == << today, editors, cleanup, classify, backendVars, dashboard >>
storeVars == << categories, timeData >>

\* chrome.tabs.onActivated: handleTabChange(activeInfo.tabId) (lines 47-49)
OnActivated(tabId, d) ==
  /\ Len(handlers) < MaxEvents
  /\ Elapse(d)
  /\ activeTab' = tabId
  /\ StopTracking(Len(handlers) + 1, NewHandler("onActivated", "handleTabChange", tabId), After(d))
  /\ UNCHANGED << nSessions, storeVars, lastOutcome, otherVars >>

\* chrome.tabs.onUpdated with status 'complete' on the active tab (lines 51-55);
\* with another status or an inactive tab the listener does nothing
OnUpdated(tabId, d) ==
  /\ Len(handlers) < MaxEvents
  /\ tabId = activeTab
  /\ Elapse(d)
  /\ StopTracking(Len(handlers) + 1, NewHandler("onUpdated", "handleTabChange", tabId), After(d))
  /\ UNCHANGED << nSessions, storeVars, lastOutcome, activeTab, otherVars >>

\* chrome.windows.onFocusChanged(WINDOW_ID_NONE): stopTracking() (lines 58-59)
OnFocusLost(d) ==
  /\ Len(handlers) < MaxEvents
  /\ Elapse(d)
  /\ StopTracking(Len(handlers) + 1, NewHandler("onFocusChanged", "stopTracking", Null), After(d))
  /\ UNCHANGED << nSessions, storeVars, lastOutcome, activeTab, otherVars >>

\* chrome.windows.onFocusChanged(windowId): chrome.tabs.query is awaited
\* before anything else (lines 60-61)
OnFocusGained ==
  /\ Len(handlers) < MaxEvents
  /\ handlers' = Append(handlers, [NewHandler("onFocusChanged", "handleTabChange", Null) EXCEPT !.pc = "query"])
  /\ UNCHANGED << trackerVars, historyVars, now, ticks, storeVars, lastOutcome,
                  activeTab, otherVars >>

\* chrome.tabs.query resolves: handleTabChange(activeTab.id) (line 62)
QueryResolved(i, d) ==
  /\ i \in 1..Len(handlers)
  /\ handlers[i].pc = "query"
  /\ Elapse(d)
  /\ StopTracking(i, [handlers[i] EXCEPT !.tabId = activeTab], After(d))
  /\ UNCHANGED << nSessions, storeVars, lastOutcome, activeTab, otherVars >>

\* chrome.storage.local.get([storageKey]) resolves (lines 110-125): an entry
\* that exists is updated at once, a missing one waits for its category
SaveGetResolved(i, d) ==
  /\ i \in 1..Len(handlers)
  /\ handlers[i].pc = "saveGet"
  /\ Elapse(d)
  /\ LET h == handlers[i]
         data == BucketOf(timeData, h.key)
     IN  handlers' = [handlers EXCEPT ![i] =
           IF h.domain \in DOMAIN data
           THEN [h EXCEPT !.data = Accumulate(data, h.domain, h.timeSpent, After(d)),
                          !.pc = "saveSet"]
           ELSE [h EXCEPT !.data = data, !.pc = "saveCategory"]]
  /\ UNCHANGED << trackerVars, closed, curSid, nSessions, storeVars, lastOutcome,
                  activeTab, otherVars >>

\* getWebsiteCategory's chrome.storage.local.get(['categories']) resolves for
\* the new entry (lines 113-125)
SaveCategoryResolved(i, d) ==
  /\ i \in 1..Len(handlers)
  /\ handlers[i].pc = "saveCategory"
  /\ Elapse(d)
  /\ LET h == handlers[i]
         entry == NewEntry(getWebsiteCategory(categories, h.domain), After(d),
                           h.title, h.domain)
         data == [ k \in DOMAIN h.data \cup {h.domain} |->
                     IF k = h.domain THEN entry ELSE h.data[k] ]
     IN  handlers' = [handlers EXCEPT ![i] =
           [h EXCEPT !.data = Accumulate(data, h.domain, h.timeSpent, After(d)),
                     !.pc = "saveSet"]]
  /\ UNCHANGED << trackerVars, closed, curSid, nSessions, storeVars, lastOutcome,
                  activeTab, otherVars >>

\* chrome.storage.local.set({ [storageKey]: timeData }) resolves (line 127);
\* the argument of sendToBackend then awaits getWebsiteCategory (line 135)
SaveSetResolved(i) ==
  /\ i \in 1..Len(handlers)
  /\ handlers[i].pc = "saveSet"
  /\ timeData' = StoreSet(timeData, handlers[i].key, handlers[i].data)
  /\ handlers' = [handlers EXCEPT ![i].pc = "sendCategory", ![i].wrote = TRUE]
  /\ UNCHANGED << trackerVars, historyVars, now, ticks, categories, lastOutcome,
                  activeTab, otherVars >>

\* that getWebsiteCategory resolves: sendToBackend issues the fetch (130-149)
SendCategoryResolved(i) ==
  /\ i \in 1..Len(handlers)
  /\ handlers[i].pc = "sendCategory"
  /\ handlers' = [handlers EXCEPT ![i].category =
                     getWebsiteCategory(categories, handlers[i].domain),
                   ![i].pc = "fetch"]
  /\ UNCHANGED << trackerVars, historyVars, now, ticks, storeVars, lastOutcome,
                  activeTab, otherVars >>

\* the outcomes of send(entry): response.ok, a non-2xx response, fetch throws
Outcomes == {"ok", "rejected", "unreachable"}

\* sendToBackend logs the outcome and returns (lines 151-158), so
\* saveTimeEntry returns and stopTracking clears the tracker (lines 100-102)
SendReturns(i, outcome, t) ==
  /\ lastOutcome' = outcome
  /\ ClearTracking(t)
  /\ handlers' = [handlers EXCEPT ![i].pc = AfterStop(handlers[i]),
                                  ![i].attempts = @ + 1,
                                  ![i].settled = "fulfilled"]

\* sendToBackend sending once more after a failure
FetchSettledRetry(i, outcome, d) ==
  /\ i \in 1..Len(handlers)
  /\ handlers[i].pc = "fetch"
  /\ Elapse(d)
  /\ IF outcome = "ok" \/ handlers[i].attempts > 0
     THEN SendReturns(i, outcome, After(d))
     ELSE /\ lastOutcome' = outcome
          /\ handlers' = [handlers EXCEPT ![i].attempts = @ + 1]
          /\ UNCHANGED << trackerVars, closed, curSid >>
  /\ UNCHANGED << nSessions, storeVars, activeTab, otherVars >>

\* the fetch of sendToBackend settles with outcome (lines 145-158)
FetchSettled(i, outcome, d) ==
  /\ i \in 1..Len(handlers)
  /\ handlers[i].pc = "fetch"
  /\ Elapse(d)
  /\ SendReturns(i, outcome, After(d))
  /\ UNCHANGED << nSessions, storeVars, activeTab, otherVars >>

\* the catch of saveTimeEntry (lines 137-139): the error is logged and the
\* function returns, so stopTracking clears the tracker (lines 100-102)
SaveCaught(i, t) ==
  /\ ClearTracking(t)
  /\ handlers' = [handlers EXCEPT ![i].pc = AfterStop(handlers[i]),
                                  ![i].failed = TRUE,
                                  ![i].settled = "fulfilled"]

\* chrome.storage.local.get([storageKey]) rejects (line 110)
SaveGetRejected(i, d) ==
  /\ i \in 1..Len(handlers)
  /\ handlers[i].pc = "saveGet"
  /\ Elapse(d)
  /\ SaveCaught(i, After(d))
  /\ UNCHANGED << nSessions, storeVars, lastOutcome, activeTab, otherVars >>

\* chrome.storage.local.set({ [storageKey]: timeData }) rejects (line 127):
\* nothing is stored and nothing is sent to the backend
SaveSetRejected(i, d) ==
  /\ i \in 1..Len(handlers)
  /\ handlers[i].pc = "saveSet"
  /\ Elapse(d)
  /\ SaveCaught(i, After(d))
  /\ UNCHANGED << nSessions, storeVars, lastOutcome, activeTab, otherVars >>

\* tab.url && !tab.url.startsWith('chrome://') (line 71)
Trackable(tab) == tab.url # "" /\ ~StartsWith(tab.url, "chrome://")

\* chrome.tabs.get(tabId) resolves; startTracking(tab) (lines 70-73, 80-85)
TabsGetResolved(i, d) ==
  /\ i \in 1..Len(handlers)
  /\ handlers[i].pc = "tabsGet"
  /\ Elapse(d)
  /\ LET tab == TabInfo(handlers[i].tabId)
     IN  IF Trackable(tab)
         THEN /\ currentTab' = tab
              /\ startTime' = After(d)
              /\ isTracking' = TRUE
              /\ nSessions' = nSessions + 1
              /\ curSid' = nSessions + 1
         ELSE UNCHANGED << trackerVars, nSessions, curSid >>
  /\ handlers' = [handlers EXCEPT ![i].pc = "done"]
  /\ UNCHANGED << closed, storeVars, lastOutcome, activeTab, otherVars >>


\* ------------------------------------------------- backend: request values
\* A request body is a JSON object: has holds the names of its fields, the
\* other fields of the record their values (that of an absent field is not
\* looked at).  Values are the strings express-validator sees (its toString
\* of the JSON value); a timestamp is the Date it parses to.
Fields == {"hostname", "duration", "category", "title", "url", "userId", "timestamp"}

NoBody == [has |-> {}, hostname |-> "", duration |-> "", category |-> "",
           title |-> "", url |-> "", userId |-> "", timestamp |-> DateOf(0, 0)]

\* enum: ['productive', 'unproductive', 'neutral']
CategoryEnum == {"productive", "unproductive", "neutral"}

\* validator.js trim / String.prototype.trim, on the blank
RECURSIVE TrimStart(_)
TrimStart(s) ==
  IF Len(s) > 0 /\ SubSeq(s, 1, 1) = " " THEN TrimStart(SubSeq(s, 2, Len(s))) ELSE s

RECURSIVE TrimEnd(_)
TrimEnd(s) ==
  IF Len(s) > 0 /\ SubSeq(s, Len(s), Len(s)) = " "
  THEN TrimEnd(SubSeq(s, 1, Len(s) - 1)) ELSE s

trim(s) == TrimEnd(TrimStart(s))

DecimalDigits == << "0", "1", "2", "3", "4", "5", "6", "7", "8", "9" >>

IsDigit(c) == \E i \in 1..Len(DecimalDigits) : DecimalDigits[i] = c

DigitValue(c) == (CHOOSE i \in 1..Len(DecimalDigits) : DecimalDigits[i] = c) - 1

\* the digits of s after an optional sign
Unsigned(s) ==
  IF Len(s) > 0 /\ SubSeq(s, 1, 1) \in {"-", "+"} THEN SubSeq(s, 2, Len(s)) ELSE s

\* validator.js isInt: /^(?:[-+]?(?:0|[1-9][0-9]*))$/
IsIntString(s) ==
  LET u == Unsigned(s)
  IN  /\ Len(u) > 0
      /\ \A i \in 1..Len(u) : IsDigit(SubSeq(u, i, i))
      /\ Len(u) > 1 => SubSeq(u, 1, 1) # "0"

RECURSIVE DigitsValue(_)
DigitsValue(u) ==
  IF Len(u) = 0 THEN 0
  ELSE 10 * DigitsValue(SubSeq(u, 1, Len(u) - 1)) + DigitValue(SubSeq(u, Len(u), Len(u)))

\* the Number a string of isInt's form converts to (parseInt, Number cast)
ToNumber(s) ==
  IF Len(s) > 0 /\ SubSeq(s, 1, 1) = "-" THEN 0 - DigitsValue(Unsigned(s))
  ELSE DigitsValue(Unsigned(s))

\* isInt({ min })
isIntMin(s, min) == IsIntString(s) /\ ToNumber(s) >= min

\* isInt({ min, max })
isIntBetween(s, min, max) == IsIntString(s) /\ ToNumber(s) >= min /\ ToNumber(s) <= max

\* validator.js isURL with its defaults, as far as the sampled values need:
\* a protocol of http or https and a host with a top-level domain
isURL(s) ==
  /\ StartsWith(s, "http://") \/ StartsWith(s, "https://")
  /\ Includes(Hostname(s), ".")
  /\ ~Includes(s, " ")


\* ------------------------------------------------ backend: the collection
\* what the extension holds: no route of the backend touches it
backgroundVars == << trackerVars, historyVars, handlers, activeTab, lastOutcome,
                    ticks, storeVars, now, today, editors, cleanup, classify >>
extensionVars == << backgroundVars, dashboard >>

\* new Date() on the server
ServerTime == DateOf(today, now)

\* a parameter :id that is not the text of an ObjectId
BadId == 0

\* new TimeEntry({ ...body, timestamp }) for a body the route's validators
\* passed: the schema's casts (Number), setters (trim) and defaults
\* (userId: null, here ""); timestamps: true sets updatedAt
NewDoc(body, id, timestamp, t) ==
  [ id |-> id,
    hostname |-> trim(body.hostname),
    url |-> IF "url" \in body.has THEN trim(body.url) ELSE "",
    title |-> IF "title" \in body.has THEN trim(body.title) ELSE "",
    duration |-> ToNumber(body.duration),
    category |-> body.category,
    timestamp |-> timestamp,
    userId |-> IF "userId" \in body.has THEN body.userId ELSE "",
    updatedAt |-> t ]

\* the schema's validators: hostname required (an empty string is missing),
\* duration required with min 1, category required and of the enum
SchemaValid(doc) ==
  /\ doc.hostname # ""
  /\ doc.duration >= 1
  /\ doc.category \in CategoryEnum

\* the last request and its response: the route, the :id and the number of
\* entries of the request, the status and the documents of the response
NoResponse == [route |-> "none", status |-> 0, id |-> 0, sent |-> 0,
               entries |-> << >>]

Response(route, status, id, entries) ==
  [NoResponse EXCEPT !.route = route, !.status = status, !.id = id,
                     !.entries = entries]

DocIds == { db[k].id : k \in 1..Len(db) }

\* the validators of POST /time-entries; sanitizers run in their place in
\* the chain, so notEmpty() sees the hostname before trim()
CreateChainValid(body) ==
  /\ "hostname" \in body.has /\ body.hostname # ""
  /\ "duration" \in body.has /\ isIntMin(body.duration, 1)
  /\ "category" \in body.has /\ body.category \in CategoryEnum
  /\ "url" \in body.has => isURL(body.url)

\* the trim() sanitizers of the chains write the trimmed value to req.body
Sanitized(body) == [body EXCEPT !.hostname = trim(@), !.title = trim(@)]

\* POST /api/time-entries
CreateEntry(body) ==
  LET doc == NewDoc(Sanitized(body), nextId, ServerTime, ServerTime)
  IN  /\ UNCHANGED extensionVars
      /\ IF ~CreateChainValid(body)
         THEN /\ res' = Response("create", 400, 0, << >>)
              /\ UNCHANGED << db, nextId >>
         ELSE IF ~SchemaValid(doc)          \* save() rejects: catch, 500
         THEN /\ res' = Response("create", 500, 0, << >>)
              /\ UNCHANGED << db, nextId >>
         ELSE /\ db' = Append(db, doc)
              /\ nextId' = nextId + 1
              /\ res' = Response("create", 201, doc.id, << doc >>)

\* the validators of POST /time-entries/bulk with isArray({ min: 1 }) only
BulkChainValidNoMax(entries) ==
  /\ Len(entries) >= 1
  /\ \A k \in 1..Len(entries) :
       /\ "hostname" \in entries[k].has /\ entries[k].hostname # ""
       /\ "duration" \in entries[k].has /\ isIntMin(entries[k].duration, 1)
       /\ "category" \in entries[k].has /\ entries[k].category \in CategoryEnum

\* the validators of POST /time-entries/bulk
BulkChainValid(entries) ==
  /\ Len(entries) >= 1 /\ Len(entries) <= MaxBatch
  /\ \A k \in 1..Len(entries) :
       /\ "hostname" \in entries[k].has /\ entries[k].hostname # ""
       /\ "duration" \in entries[k].has /\ isIntMin(entries[k].duration, 1)
       /\ "category" \in entries[k].has /\ entries[k].category \in CategoryEnum

\* entries.map(...): the entry's own timestamp when it has one
BulkDocs(entries) ==
  [ k \in 1..Len(entries) |->
      NewDoc([entries[k] EXCEPT !.hostname = trim(@)], nextId + k - 1,
             IF "timestamp" \in entries[k].has THEN entries[k].timestamp
             ELSE ServerTime,
             ServerTime) ]

\* POST /api/time-entries/bulk: insertMany validates every document before
\* it inserts any
BulkCreate(entries) ==
  LET docs == BulkDocs(entries)
      ok == BulkChainValid(entries) /\ \A k \in 1..Len(docs) : SchemaValid(docs[k])
  IN  /\ UNCHANGED extensionVars
      /\ IF ~BulkChainValid(entries)
         THEN /\ res' = [Response("bulk", 400, 0, << >>) EXCEPT !.sent = Len(entries)]
              /\ UNCHANGED << db, nextId >>
         ELSE IF ~ok
         THEN /\ res' = [Response("bulk", 500, 0, << >>) EXCEPT !.sent = Len(entries)]
              /\ UNCHANGED << db, nextId >>
         ELSE /\ db' = db \o docs
              /\ nextId' = nextId + Len(docs)
              /\ res' = [Response("bulk", 201, 0, docs) EXCEPT !.sent = Len(entries)]


\* the validators of PUT /time-entries/:id: every field is optional()
UpdateChainValid(body) ==
  /\ "hostname" \in body.has => body.hostname # ""
  /\ "duration" \in body.has => isIntMin(body.duration, 1)
  /\ "category" \in body.has => body.category \in CategoryEnum

\* { ...updateData, updatedAt: new Date() } as $set on a document: every
\* field of the body that the schema has is set
ApplyUpdate(doc, body, t) ==
  [ id |-> doc.id,
    hostname |-> IF "hostname" \in body.has THEN trim(body.hostname) ELSE doc.hostname,
    url |-> IF "url" \in body.has THEN trim(body.url) ELSE doc.url,
    title |-> IF "title" \in body.has THEN trim(body.title) ELSE doc.title,
    duration |-> IF "duration" \in body.has THEN ToNumber(body.duration) ELSE doc.duration,
    category |-> IF "category" \in body.has THEN body.category ELSE doc.category,
    timestamp |-> IF "timestamp" \in body.has THEN body.timestamp ELSE doc.timestamp,
    userId |-> IF "userId" \in body.has THEN body.userId ELSE doc.userId,
    updatedAt |-> t ]

\* runValidators: true runs the schema's validators on the fields being set
UpdateValid(body) ==
  /\ "hostname" \in body.has => trim(body.hostname) # ""
  /\ "duration" \in body.has => ToNumber(body.duration) >= 1
  /\ "category" \in body.has => body.category \in CategoryEnum

\* PUT /api/time-entries/:id
UpdateEntry(id, body) ==
  /\ UNCHANGED extensionVars
  /\ UNCHANGED nextId
  /\ IF ~UpdateChainValid(body)
     THEN res' = Response("update", 400, id, << >>) /\ UNCHANGED db
     ELSE IF id = BadId \/ ~UpdateValid(body)   \* CastError, ValidationError: catch
     THEN res' = Response("update", 500, id, << >>) /\ UNCHANGED db
     ELSE IF id \notin DocIds
     THEN res' = Response("update", 404, id, << >>) /\ UNCHANGED db
     ELSE LET k == CHOOSE n \in 1..Len(db) : db[n].id = id
              doc == ApplyUpdate(db[k], body, ServerTime)
          IN  /\ db' = [db EXCEPT ![k] = doc]
              /\ res' = Response("update", 200, id, << doc >>)

\* the documents without the one of this id
RECURSIVE WithoutId(_, _)
WithoutId(docs, id) ==
  IF docs = << >> THEN << >>
  ELSE IF Head(docs).id = id THEN WithoutId(Tail(docs), id)
  ELSE << Head(docs) >> \o WithoutId(Tail(docs), id)

\* DELETE /api/time-entries/:id
DeleteEntry(id) ==
  /\ UNCHANGED extensionVars
  /\ UNCHANGED nextId
  /\ IF id = BadId                              \* CastError: catch
     THEN res' = Response("delete", 500, id, << >>) /\ UNCHANGED db
     ELSE IF id \notin DocIds
     THEN res' = Response("delete", 404, id, << >>) /\ UNCHANGED db
     ELSE LET k == CHOOSE n \in 1..Len(db) : db[n].id = id
          IN  /\ db' = WithoutId(db, id)
              /\ res' = Response("delete", 200, id, << db[k] >>)

\* -------------------------------------------------------- specifications
\* the day on which a behaviour starts: late enough to have expired days
FirstDay == RetentionDays + MaxDays

\* the extension installed (initializeStorage has run), nothing tracked yet
Init ==
  /\ currentTab = NoTab
  /\ startTime = Null
  /\ isTracking = FALSE
  /\ now = ShortMs
  /\ today = FirstDay
  /\ categories = defaultCategories
  /\ timeData = [k \in {} |-> EmptyBucket]
  /\ handlers = << >>
  /\ activeTab = 1
  /\ lastOutcome = "none"
  /\ closed = << >>
  /\ curSid = Null
  /\ nSessions = 0
  /\ trackedMs = 0
  /\ ticks = 0
  /\ editors = << >>
  /\ cleanup = NoCleanup
  /\ classify = NoClassify
  /\ db = << >> /\ nextId = 1 /\ res = NoResponse
  /\ dashboard = NoDashboard

\* the segments of the listeners that are suspended
Resume ==
  \/ \E i \in 1..MaxEvents, d \in Delays : QueryResolved(i, d)
  \/ \E i \in 1..MaxEvents, d \in Delays : SaveGetResolved(i, d)
  \/ \E i \in 1..MaxEvents, d \in Delays : SaveCategoryResolved(i, d)
  \/ \E i \in 1..MaxEvents : SaveSetResolved(i)
  \/ \E i \in 1..MaxEvents : SendCategoryResolved(i)
  \/ \E i \in 1..MaxEvents, o \in Outcomes, d \in Delays : FetchSettled(i, o, d)
  \/ \E i \in 1..MaxEvents, d \in Delays : TabsGetResolved(i, d)

Next ==
  \/ \E t \in Tabs, d \in Delays : OnActivated(t, d)
  \/ \E t \in Tabs, d \in Delays : OnUpdated(t, d)
  \/ \E d \in Delays : OnFocusLost(d)
  \/ OnFocusGained
  \/ Resume

Spec == Init /\ [][Next]_vars

\* every listener invocation has run to its end
AllDone == \A i \in 1..Len(handlers) : handlers[i].pc = "done"

\* the same listeners when no event arrives while an invocation is suspended
NextSeq ==
  \/ AllDone /\ \E t \in Tabs, d \in Delays : OnActivated(t, d)
  \/ AllDone /\ \E t \in Tabs, d \in Delays : OnUpdated(t, d)
  \/ AllDone /\ \E d \in Delays : OnFocusLost(d)
  \/ AllDone /\ OnFocusGained
  \/ Resume

SpecSeq == Init /\ [][NextSeq]_vars

\* chrome.tabs.get(tabId) rejects: the catch of handleTabChange logs the
\* error (lines 74-76)
TabsGetRejected(i) ==
  /\ i \in 1..Len(handlers)
  /\ handlers[i].pc = "tabsGet"
  /\ handlers' = [handlers EXCEPT ![i].pc = "done"]
  /\ UNCHANGED << trackerVars, historyVars, now, ticks, storeVars, lastOutcome,
                  activeTab, otherVars >>

\* the listeners one after the other, on tabs of every kind of page, the
\* tab lookup resolving or rejecting
NextPages ==
  \/ AllDone /\ \E t \in Pages, d \in Delays : OnActivated(t, d)
  \/ AllDone /\ \E t \in Pages, d \in Delays : OnUpdated(t, d)
  \/ AllDone /\ \E d \in Delays : OnFocusLost(d)
  \/ AllDone /\ OnFocusGained
  \/ Resume
  \/ \E i \in 1..MaxEvents : TabsGetRejected(i)

SpecPages == Init /\ [][NextPages]_vars

\* ------------------------------------------------ cleanup of old buckets
trackerAll == << trackerVars, historyVars, handlers, activeTab, lastOutcome, ticks >>

\* chrome.alarms 'cleanup' fires: cleanupOldData() awaits
\* chrome.storage.local.get(null) (lines 216-224)
CleanupAlarm ==
  /\ cleanup.pc \in {"idle", "done"}
  /\ cleanup' = [cleanup EXCEPT !.pc = "get", !.failed = FALSE,
                                !.settled = "pending"]
  /\ UNCHANGED << trackerAll, backendVars, dashboard, now, today, storeVars, editors, classify >>

\* the get resolves: cutoff and toRemove are computed, and
\* chrome.storage.local.remove is awaited if toRemove.length (lines 224-237)
CleanupGetResolved ==
  /\ cleanup.pc = "get"
  /\ LET cutoff == Cutoff(today, now)
         toRemove == ToRemove(KeysOf(timeData, categories), cutoff)
     IN  cleanup' = [ pc |-> IF toRemove # {} THEN "remove" ELSE "done",
                      toRemove |-> toRemove, cutoff |-> cutoff,
                      before |-> [timeData |-> timeData, categories |-> categories,
                                  at |-> DateOf(today, now)],
                      failed |-> FALSE,
                      settled |-> IF toRemove # {} THEN "pending" ELSE "fulfilled" ]
  /\ UNCHANGED << trackerAll, backendVars, dashboard, now, today, storeVars, editors, classify >>

\* the remove resolves (lines 237-238)
CleanupRemoveResolved ==
  /\ cleanup.pc = "remove"
  /\ timeData' = StoreRemove(timeData, cleanup.toRemove)
  /\ cleanup' = [cleanup EXCEPT !.pc = "done", !.settled = "fulfilled"]
  /\ UNCHANGED << trackerAll, backendVars, dashboard, now, today, categories, editors, classify >>

\* the catch of cleanupOldData (lines 240-242): the error is logged and the
\* function returns
CleanupCaught ==
  /\ cleanup' = [cleanup EXCEPT !.pc = "done", !.failed = TRUE,
                                !.settled = "fulfilled"]
  /\ UNCHANGED << trackerAll, backendVars, dashboard, now, today, storeVars, editors, classify >>

\* chrome.storage.local.get(null) rejects (line 224)
CleanupGetRejected == cleanup.pc = "get" /\ CleanupCaught

\* chrome.storage.local.remove(toRemove) rejects (line 237): no bucket is
\* removed
CleanupRemoveRejected == cleanup.pc = "remove" /\ CleanupCaught

\* UTC midnight passes
Midnight ==
  /\ today < FirstDay + MaxDays
  /\ today' = today + 1
  /\ now' = 0
  /\ UNCHANGED << trackerAll, backendVars, dashboard, storeVars, editors, cleanup, classify >>

\* a moment passes after midnight
AfterMidnight ==
  /\ now = 0
  /\ now' = ShortMs
  /\ UNCHANGED << trackerAll, backendVars, dashboard, today, storeVars, editors, cleanup, classify >>

\* the days whose buckets storage may hold when the alarm fires: those
\* around the cutoff, yesterday and today
BucketDays ==
  { FirstDay - RetentionDays - 1, FirstDay - RetentionDays,
    FirstDay - RetentionDays + 1, FirstDay - 1, FirstDay }

\* the bucket of a day on which github.com was visited once
SampleBucket ==
  "github.com" :> [ totalTime |-> 2, visits |-> 1, category |-> "productive",
                    lastVisit |-> LongMs, title |-> "GitHub" ]

\* the tracker idle, storage holding the buckets of some past days
InitCleanup ==
  /\ currentTab = NoTab /\ startTime = Null /\ isTracking = FALSE
  /\ now \in {0, ShortMs}
  /\ today = FirstDay
  /\ categories \in {defaultCategories, NoCategories}
  /\ \E days \in SUBSET BucketDays : timeData = [day \in days |-> SampleBucket]
  /\ handlers = << >> /\ activeTab = 1 /\ lastOutcome = "none"
  /\ closed = << >> /\ curSid = Null /\ nSessions = 0
  /\ trackedMs = 0 /\ ticks = 0
  /\ editors = << >>
  /\ cleanup = NoCleanup
  /\ classify = NoClassify
  /\ db = << >> /\ nextId = 1 /\ res = NoResponse
  /\ dashboard = NoDashboard

NextCleanup ==
  \/ CleanupAlarm
  \/ CleanupGetResolved
  \/ CleanupRemoveResolved
  \/ Midnight
  \/ AfterMidnight

SpecCleanup == InitCleanup /\ [][NextCleanup]_vars

\* ------------------------------------------------- storage calls that fail
\* the extension installed, storage holding an expired bucket and yesterday's
InitFailing ==
  /\ InitCleanup
  /\ now = ShortMs
  /\ categories = defaultCategories
  /\ DOMAIN timeData = { FirstDay - RetentionDays - 1, FirstDay - 1 }

\* the listeners one after the other and the alarm between them, every
\* storage call of saveTimeEntry and cleanupOldData resolving or rejecting
NextFailing ==
  \/ NextSeq
  \/ \E i \in 1..MaxEvents, d \in Delays : SaveGetRejected(i, d)
  \/ \E i \in 1..MaxEvents, d \in Delays : SaveSetRejected(i, d)
  \/ AllDone /\ CleanupAlarm
  \/ CleanupGetResolved
  \/ CleanupRemoveResolved
  \/ CleanupGetRejected
  \/ CleanupRemoveRejected

SpecFailing == InitFailing /\ [][NextFailing]_vars

\* ------------------------------------------- the dashboard's category editor
otherCategory(category) ==
  IF category = "productive" THEN "unproductive" ELSE "productive"

\* Array.prototype.includes, then push
PushIfAbsent(list, website) ==
  IF website \in SeqRange(list) THEN list ELSE Append(list, website)

\* addWebsiteToCategory without the filter of the other category
AddWebsiteKeepOther(cats, category, website) ==
  [cats EXCEPT ![category] = PushIfAbsent(@, website)]

\* addWebsiteToCategory on the categories it read (dashboard.js 759-766)
AddWebsite(cats, category, website) ==
  [cats EXCEPT ![otherCategory(category)] = Without(@, website),
               ![category] = PushIfAbsent(@, website)]

\* removeWebsiteFromCategory on the categories it read (dashboard.js 781)
RemoveWebsite(cats, category, website) ==
  [cats EXCEPT ![category] = Without(@, website)]

\* the hostnames typed into the inputs (trimmed, not empty) or listed with a
\* remove button: one of the default productive list, one unlisted
Websites == {"github.com", "example.org"}
CategoryNames == {"productive", "unproductive"}

noEditors == << trackerAll, backendVars, dashboard, now, today, timeData, cleanup, classify >>

\* a click on Add: addWebsiteToCategory(category, website) awaits
\* chrome.storage.local.get(['categories']) (dashboard.js 754-756)
ClickAdd(category, website) ==
  /\ Len(editors) < MaxEdits
  /\ editors' = Append(editors, [op |-> "add", category |-> category,
                                 website |-> website, pc |-> "get",
                                 categories |-> emptyCategories])
  /\ UNCHANGED << noEditors, categories >>

\* a click on a remove button: removeWebsiteFromCategory(category, site)
\* awaits the same get (dashboard.js 776-778)
ClickRemove(category, website) ==
  /\ Len(editors) < MaxEdits
  /\ editors' = Append(editors, [op |-> "remove", category |-> category,
                                 website |-> website, pc |-> "get",
                                 categories |-> emptyCategories])
  /\ UNCHANGED << noEditors, categories >>

\* the get resolves: the lists are edited and sent to the background with
\* chrome.runtime.sendMessage (dashboard.js 757-768, 779-783)
EditorGetResolved(i) ==
  /\ i \in 1..Len(editors)
  /\ editors[i].pc = "get"
  /\ LET e == editors[i]
         read == StoredCategories(categories)
     IN  editors' = [editors EXCEPT ![i].pc = "send",
                       ![i].categories =
                          IF e.op = "add" THEN AddWebsite(read, e.category, e.website)
                          ELSE RemoveWebsite(read, e.category, e.website)]
  /\ UNCHANGED << noEditors, categories >>

\* the background's onMessage listener gets 'updateCategories' and stores
\* request.categories (part_000 197-200); the editor then shows them
UpdateCategories(i) ==
  /\ i \in 1..Len(editors)
  /\ editors[i].pc = "send"
  /\ categories' = editors[i].categories
  /\ editors' = [editors EXCEPT ![i].pc = "done"]
  /\ UNCHANGED noEditors

NextCategories ==
  \/ \E c \in CategoryNames, w \in Websites : ClickAdd(c, w)
  \/ \E c \in CategoryNames, w \in Websites : ClickRemove(c, w)
  \/ \E i \in 1..MaxEdits : EditorGetResolved(i)
  \/ \E i \in 1..MaxEdits : UpdateCategories(i)

\* the extension installed, the dashboard open
SpecCategories == Init /\ [][NextCategories]_vars

\* ------------------------------------------------------- classification
\* the hostnames a list may hold or a tab may show
Hostnames == {"x.io", "mail.x.io", "y.io"}

\* the lists of at most n hostnames
RECURSIVE ListsUpTo(_)
ListsUpTo(n) ==
  IF n = 0 THEN { << >> }
  ELSE LET shorter == ListsUpTo(n - 1)
       IN  shorter \cup { Append(l, h) : l \in shorter, h \in Hostnames }

\* getWebsiteCategory(domain) is called and returns
Classify(domain) ==
  /\ classify' = [domain |-> domain, answer |-> getWebsiteCategory(categories, domain)]
  /\ UNCHANGED << trackerAll, backendVars, dashboard, now, today, storeVars, editors, cleanup >>

\* storage holds any two lists, or no categories at all
InitClassify ==
  /\ currentTab = NoTab /\ startTime = Null /\ isTracking = FALSE
  /\ now = ShortMs
  /\ today = FirstDay
  /\ \/ categories = NoCategories
     \/ \E p \in ListsUpTo(MaxListLen), u \in ListsUpTo(MaxListLen) :
          categories = [productive |-> p, unproductive |-> u]
  /\ timeData = [k \in {} |-> EmptyBucket]
  /\ handlers = << >> /\ activeTab = 1 /\ lastOutcome = "none"
  /\ closed = << >> /\ curSid = Null /\ nSessions = 0
  /\ trackedMs = 0 /\ ticks = 0
  /\ editors = << >>
  /\ cleanup = NoCleanup
  /\ classify = NoClassify
  /\ db = << >> /\ nextId = 1 /\ res = NoResponse
  /\ dashboard = NoDashboard

NextClassify == \E domain \in Hostnames : Classify(domain)

SpecClassify == InitClassify /\ [][NextClassify]_vars

\* hostnames that are in no list and contain no entry of one: with a
\* keyword of either kind, with none, in capitals
UnlistedHostnames == {"learn.z.org", "videos.z.org", "plain.z.org", "DOCS.z.org"}

NextUnlisted ==
  \E domain \in Hostnames \cup UnlistedHostnames : Classify(domain)

SpecUnlisted == InitClassify /\ [][NextUnlisted]_vars

\* ------------------------------------------ dashboard: categorizeWebsite
UpperCase == "ABCDEFGHIJKLMNOPQRSTUVWXYZ"
LowerCase == "abcdefghijklmnopqrstuvwxyz"

\* String.prototype.toLowerCase on the characters from position i on
RECURSIVE LowerFrom(_, _)
LowerFrom(s, i) ==
  IF i > Len(s) THEN ""
  ELSE LET c == SubSeq(s, i, i)
           at == IndexFrom(UpperCase, c, 1)
       IN  (IF at = 0 THEN c ELSE SubSeq(LowerCase, at, at)) \o LowerFrom(s, i + 1)

toLowerCase(s) == LowerFrom(s, 1)

productiveKeywords ==
  << "docs", "learn", "education", "tutorial", "course", "study", "work" >>
unproductiveKeywords == << "social", "entertainment", "game", "video", "stream" >>

\* keywords.some(keyword => lowerHostname.includes(keyword))
SomeKeyword(keywords, lowerHostname) ==
  \E i \in 1..Len(keywords) : Includes(lowerHostname, keywords[i])

\* the keyword fallback of categorizeWebsite (lines 114-127)
KeywordCategory(hostname) ==
  LET lowerHostname == toLowerCase(hostname)
  IN  IF SomeKeyword(productiveKeywords, lowerHostname) THEN "productive"
      ELSE IF SomeKeyword(unproductiveKeywords, lowerHostname) THEN "unproductive"
      ELSE "neutral"

\* categorizeWebsite(hostname), websiteCategories being a function from the
\* hostnames that are its keys to their categories
categorizeWebsite(websiteCategories, hostname) ==
  IF hostname \in DOMAIN websiteCategories
  THEN websiteCategories[hostname]
  ELSE KeywordCategory(hostname)

\* --------------------------------------------- backend: Number arithmetic
\* A Number is an IEEE 754 double: a significand of Precision bits (most
\* significant first, the first one 1) times 2^exp, exp the weight of the
\* last bit.  The numbers divided here are positive integers.
Precision == 53

\* the least k with p * 2^k >= t
RECURSIVE LeadingShift(_, _)
LeadingShift(p, t) == IF p >= t THEN 0 ELSE 1 + LeadingShift(2 * p, t)

RECURSIVE TimesTwoTo(_, _)
TimesTwoTo(p, k) == IF k = 0 THEN p ELSE TimesTwoTo(2 * p, k - 1)

\* the bits of weight 2^0, 2^-1, ... of r / t, for r < 2t
RECURSIVE QuotientBits(_, _, _)
QuotientBits(r, t, n) ==
  IF n = 0 THEN << >>
  ELSE IF r >= t THEN << 1 >> \o QuotientBits(2 * (r - t), t, n - 1)
  ELSE << 0 >> \o QuotientBits(2 * r, t, n - 1)

\* what is left of r after n bits
RECURSIVE QuotientRest(_, _, _)
QuotientRest(r, t, n) ==
  IF n = 0 THEN r
  ELSE IF r >= t THEN QuotientRest(2 * (r - t), t, n - 1)
  ELSE QuotientRest(2 * r, t, n - 1)

\* the bits of a[1..i] + b[1..i] + carry
RECURSIVE AddFrom(_, _, _, _)
AddFrom(a, b, i, carry) ==
  IF i = 0 THEN (IF carry = 1 THEN << 1 >> ELSE << >>)
  ELSE LET sum == a[i] + b[i] + carry
       IN  IF sum >= 2 THEN Append(AddFrom(a, b, i - 1, 1), sum - 2)
           ELSE Append(AddFrom(a, b, i - 1, 0), sum)

\* a + b + carry on bit strings of one length
AddBits(a, b, carry) == AddFrom(a, b, Len(a), carry)

Zeros(n) == [ i \in 1..n |-> 0 ]

\* a shifted left by k bits, in a bit string of n bits
Shifted(a, k, n) == Zeros(n - Len(a) - k) \o a \o Zeros(k)

RECURSIVE StripZeros(_)
StripZeros(a) == IF a # << >> /\ Head(a) = 0 THEN StripZeros(Tail(a)) ELSE a

\* round to nearest, ties to even: bits holds more than Precision bits of
\* a value whose last bit has weight 2^exp; sticky tells of bits beyond
RoundToDouble(bits, exp, sticky) ==
  LET kept == SubSeq(bits, 1, Precision)
      rest == SubSeq(bits, Precision + 1, Len(bits))
      more == sticky \/ \E i \in 2..Len(rest) : rest[i] = 1
      up   == rest[1] = 1 /\ (more \/ kept[Precision] = 1)
      sum  == IF up THEN AddBits(kept, Zeros(Precision), 1) ELSE kept
      e    == exp + Len(rest)
  IN  IF Len(sum) > Precision
      THEN [bits |-> SubSeq(sum, 1, Precision), exp |-> e + 1]
      ELSE [bits |-> sum, exp |-> e]

\* p / t for integers 0 < p <= t
Divide(p, t) ==
  LET k == LeadingShift(p, t)
      r == TimesTwoTo(p, k)
  IN  RoundToDouble(QuotientBits(r, t, Precision + 1), 0 - k - Precision,
                    QuotientRest(r, t, Precision + 1) # 0)

\* x * 100: 100 = 64 + 32 + 4
Times100(x) ==
  LET n == Precision + 7
      sum == AddBits(AddBits(Shifted(x.bits, 6, n), Shifted(x.bits, 5, n), 0),
                     Shifted(x.bits, 2, n), 0)
  IN  RoundToDouble(StripZeros(sum), x.exp, FALSE)

\* the integer of the first i bits of a
RECURSIVE BitsValue(_, _)
BitsValue(a, i) == IF i = 0 THEN 0 ELSE 2 * BitsValue(a, i - 1) + a[i]

\* Math.round(x) = floor(x + 0.5), for 0 < x < 2^Precision
MathRound(x) ==
  LET whole == Precision + x.exp       \* bits before the binary point
  IN  IF whole < 0 THEN 0
      ELSE IF whole >= Precision THEN BitsValue(x.bits, Precision)
      ELSE BitsValue(x.bits, whole) + x.bits[whole + 1]

\* Math.round((productiveTime / totalTime) * 100) without the guard
\* totalTime > 0: a division by zero gives NaN, shown here as -1
ProductivityScoreUnguarded(productiveTime, totalTime) ==
  IF totalTime = 0 THEN 0 - 1
  ELSE IF productiveTime = 0 THEN 0
  ELSE MathRound(Times100(Divide(productiveTime, totalTime)))

\* totalTime > 0 ? Math.round((productiveTime / totalTime) * 100) : 0
ProductivityScore(productiveTime, totalTime) ==
  IF totalTime > 0
  THEN IF productiveTime = 0 THEN 0
       ELSE MathRound(Times100(Divide(productiveTime, totalTime)))
  ELSE 0

\* ------------------------------------------------- backend: the write routes
\* the extension as installed, with nothing tracked or stored yet, on a day
ExtensionIdleOn(day) ==
  /\ currentTab = NoTab /\ startTime = Null /\ isTracking = FALSE
  /\ now = ShortMs
  /\ today = day
  /\ categories = defaultCategories
  /\ timeData = [k \in {} |-> EmptyBucket]
  /\ handlers = << >> /\ activeTab = 1 /\ lastOutcome = "none"
  /\ closed = << >> /\ curSid = Null /\ nSessions = 0
  /\ trackedMs = 0 /\ ticks = 0
  /\ editors = << >>
  /\ cleanup = NoCleanup
  /\ classify = NoClassify

ExtensionIdle == ExtensionIdleOn(FirstDay) /\ dashboard = NoDashboard

\* the fields a TimeEntry must have
Required == {"hostname", "duration", "category"}

\* a body with these fields, each with the given or a fixed value
Body(has, hostname, duration, category) ==
  [ has |-> has,
    hostname |-> IF "hostname" \in has THEN hostname ELSE NoBody.hostname,
    duration |-> IF "duration" \in has THEN duration ELSE NoBody.duration,
    category |-> IF "category" \in has THEN category ELSE NoBody.category,
    title |-> IF "title" \in has THEN " Docs " ELSE NoBody.title,
    url |-> IF "url" \in has THEN "https://docs.io/" ELSE NoBody.url,
    userId |-> IF "userId" \in has THEN "u1" ELSE NoBody.userId,
    timestamp |-> IF "timestamp" \in has THEN DateOf(1, 0) ELSE NoBody.timestamp ]

\* what the extension's sendToBackend posts, without its url and title
SentBody == Body(Required, "github.com", "2", "neutral")

\* the bodies of the create requests: the sent one, one to trim, one with
\* every field, and bodies with one field missing or wrong
CreateBodies ==
  { SentBody,
    Body(Required, " docs.io", "2", "neutral"),
    Body(Fields, "github.com", "2", "neutral"),
    [Body(Required \cup {"url"}, "github.com", "2", "neutral") EXCEPT !.url = "docs" ],
    Body(Required, " ", "2", "neutral"),
    Body(Required, "", "2", "neutral"),
    Body(Required, "github.com", "0", "neutral"),
    Body(Required, "github.com", "1.5", "neutral"),
    Body(Required, "github.com", "2", "fun") }
  \cup { Body(Required \ {f}, "github.com", "2", "neutral") : f \in Required }

\* the bodies of the update requests: empty, the fields the route validates,
\* the fields it does not, and one wrong field
UpdateBodies ==
  { NoBody,
    Body({"hostname", "duration", "category", "title"}, " docs.io", "7", "productive"),
    Body({"timestamp", "userId", "url"}, "", "", ""),
    Body({"hostname"}, " ", "", ""),
    Body({"hostname"}, "", "", ""),
    Body({"duration"}, "", "0", ""),
    Body({"duration"}, "", "1.5", ""),
    Body({"category"}, "", "", "fun") }

\* the bodies of the entries of a bulk request
BulkBodies ==
  { SentBody,
    Body(Required \cup {"timestamp"}, "github.com", "2", "neutral"),
    Body(Required, " ", "2", "neutral"),
    Body(Required, "github.com", "0", "neutral") }

\* arrays of at most n entries
RECURSIVE Batches(_)
Batches(n) ==
  IF n = 0 THEN { << >> }
  ELSE LET shorter == Batches(n - 1)
       IN  shorter \cup { Append(b, e) : b \in shorter, e \in BulkBodies }

\* the ids of the requests: of a document, of none, not an ObjectId
Ids == 0..(MaxEntries + 1)

InitBackend ==
  /\ ExtensionIdle
  /\ db = << >> /\ nextId = 1 /\ res = NoResponse

NextBackend ==
  \/ \E body \in CreateBodies : nextId <= MaxEntries /\ CreateEntry(body)
  \/ \E entries \in Batches(MaxEntries) :
       nextId + Len(entries) - 1 <= MaxEntries /\ BulkCreate(entries)
  \/ \E id \in Ids, body \in UpdateBodies : UpdateEntry(id, body)
  \/ \E id \in Ids : DeleteEntry(id)

SpecBackend == InitBackend /\ [][NextBackend]_vars

\* ------------------------------------------------ backend: large batches
\* n entries as the extension would send them
Repeat(body, n) == [ k \in 1..n |-> body ]

\* the batch with its last entry replaced
WithLast(entries, body) == [entries EXCEPT ![Len(entries)] = body]

\* batch sizes at and next to the limits of isArray({ min: 1, max: 100 })
BatchSizes == {0, 1, MaxBatch - 1, MaxBatch, MaxBatch + 1}

\* batches of these sizes of sent entries only, and batches of the least
\* and the greatest size allowed with another last entry
LargeBatches ==
  { Repeat(SentBody, n) : n \in BatchSizes }
  \cup { WithLast(Repeat(SentBody, n), body) :
           n \in {1, MaxBatch}, body \in BulkBodies \ {SentBody} }

\* room for two full batches next to MaxEntries entries of small batches
BulkStoreLimit == 2 * MaxBatch + MaxEntries

NextBulk ==
  \E entries \in LargeBatches :
    /\ Len(entries) <= MaxBatch => nextId + Len(entries) - 1 <= BulkStoreLimit
    /\ Len(entries) < MaxBatch - 1 => nextId + Len(entries) - 1 <= MaxEntries
    /\ BulkCreate(entries)

SpecBulk == InitBackend /\ [][NextBulk]_vars

\* ------------------------------------------------- backend: the read routes
\* a query string: has holds the names of its parameters; a date parameter
\* is the Date that new Date(...) makes of it
NoQuery == [has |-> {}, startDate |-> DateOf(0, 0), endDate |-> DateOf(0, 0),
            userId |-> "", hostname |-> "", category |-> "",
            page |-> "", limit |-> ""]

\* a parameter that is there and truthy: if (userId), if (startDate)
Given(q, name) ==
  /\ name \in q.has
  /\ name = "userId" => q.userId # ""
  /\ name = "hostname" => q.hostname # ""
  /\ name = "category" => q.category # ""

\* the filter the read routes build: userId, timestamp $gte and $lte
Matches(doc, q) ==
  /\ Given(q, "userId") => doc.userId = q.userId
  /\ Given(q, "startDate") => DateLessOrEqual(q.startDate, doc.timestamp)
  /\ Given(q, "endDate") => DateLessOrEqual(doc.timestamp, q.endDate)

\* { $match: filter }: the positions of the matching documents
Matching(q) == { k \in 1..Len(db) : Matches(db[k], q) }

\* { $sum: '$duration' } over the documents at positions K
RECURSIVE SumDuration(_)
SumDuration(K) ==
  IF K = {} THEN 0
  ELSE LET k == CHOOSE n \in K : TRUE
       IN  db[k].duration + SumDuration(K \ {k})

\* the $group by category and $project of the summary: one item for every
\* category that has matching documents
CategoryGroups(q) ==
  LET K == Matching(q)
      present == { db[k].category : k \in K }
  IN  [ c \in present |->
          LET G == { k \in K : db[k].category = c }
          IN  [ totalTime |-> SumDuration(G),
                entryCount |-> Cardinality(G),
                uniqueWebsiteCount |-> Cardinality({ db[k].hostname : k \in G }) ] ]

\* totalTime += item.totalTime over the items
RECURSIVE SumGroups(_, _)
SumGroups(groups, C) ==
  IF C = {} THEN 0
  ELSE LET c == CHOOSE x \in C : TRUE
       IN  groups[c].totalTime + SumGroups(groups, C \ {c})

\* the summary of the response: the forEach over the items and the score
SummaryOf(q) ==
  LET groups == CategoryGroups(q)
      totalTime == SumGroups(groups, DOMAIN groups)
      productiveTime == IF "productive" \in DOMAIN groups
                        THEN groups["productive"].totalTime ELSE 0
  IN  [ totalTime |-> totalTime,
        productiveTime |-> productiveTime,
        productivityScore |-> ProductivityScore(productiveTime, totalTime),
        categoryBreakdown |-> groups ]

\* GET /api/analytics/summary (the topWebsites of the response are left out)
GetSummary(q) ==
  /\ res' = [route |-> "summary", status |-> 200, query |-> q,
             summary |-> SummaryOf(q)]
  /\ UNCHANGED << extensionVars, db, nextId >>

\* stored entries: the sampled durations, every category, two days, the
\* entries of the second day with a userId
SampleDocs ==
  { [ id |-> 0,
      hostname |-> CASE c = "productive" -> "github.com"
                     [] c = "unproductive" -> "facebook.com"
                     [] OTHER -> "example.org",
      url |-> "", title |-> "",
      duration |-> d, category |-> c,
      timestamp |-> DateOf(day, ShortMs),
      userId |-> IF day = 1 THEN "" ELSE "u1",
      updatedAt |-> DateOf(day, ShortMs) ] :
      d \in {17, 23, 60, 120}, c \in CategoryEnum, day \in {1, 2} }

\* the collections of at most n stored entries, with their ids
RECURSIVE Collections(_)
Collections(n) ==
  IF n = 0 THEN { << >> }
  ELSE LET smaller == Collections(n - 1)
       IN  smaller \cup { Append(c, [doc EXCEPT !.id = Len(c) + 1]) :
                            c \in { x \in smaller : Len(x) = n - 1 },
                            doc \in SampleDocs }

\* the queries of the analytics routes
AnalyticsQueries ==
  { [NoQuery EXCEPT !.has = has,
                    !.startDate = IF "startDate" \in has THEN DateOf(2, 0) ELSE @,
                    !.endDate = IF "endDate" \in has THEN DateOf(ed, 0) ELSE @,
                    !.userId = IF "userId" \in has THEN "u1" ELSE @] :
      has \in SUBSET {"startDate", "endDate", "userId"}, ed \in {1, 2} }

\* the backend with some entries stored
InitStored ==
  /\ ExtensionIdle
  /\ db \in Collections(MaxEntries)
  /\ nextId = Len(db) + 1
  /\ res = NoResponse

NextSummary == \E q \in AnalyticsQueries : GetSummary(q)

SpecSummary == InitStored /\ [][NextSummary]_vars

\* ---------------------------------------------------- backend: the list
\* the validators with isInt({ min: 1 }) for the limit
ListChainValidNoMax(q) ==
  /\ "page" \in q.has => isIntMin(q.page, 1)
  /\ "limit" \in q.has => isIntMin(q.limit, 1)
  /\ "category" \in q.has => q.category \in CategoryEnum

\* the validators of GET /time-entries
ListChainValid(q) ==
  /\ "page" \in q.has => isIntMin(q.page, 1)
  /\ "limit" \in q.has => isIntBetween(q.limit, 1, MaxBatch)
  /\ "category" \in q.has => q.category \in CategoryEnum

\* const { page = 1, limit = 50 } = req.query, as the numbers the
\* arithmetic and parseInt make of them
DefaultLimit == 50
PageOf(q) == IF "page" \in q.has THEN ToNumber(q.page) ELSE 1
LimitOf(q) == IF "limit" \in q.has THEN ToNumber(q.limit) ELSE DefaultLimit

\* the filter of the list: that of the analytics, hostname ($regex, here a
\* plain substring) and category
ListMatches(doc, q) ==
  /\ Matches(doc, q)
  /\ Given(q, "hostname") => Includes(doc.hostname, q.hostname)
  /\ Given(q, "category") => doc.category = q.category

ListMatching(q) == { k \in 1..Len(db) : ListMatches(db[k], q) }

\* the number of documents at positions K with a later timestamp than the
\* one at k, for every k of K
LaterCounts(K) ==
  { << k, Cardinality({ n \in K : DateLess(db[k].timestamp, db[n].timestamp) }) >> :
      k \in K }

\* the orders a set of positions can be put in
RECURSIVE Orders(_)
Orders(G) ==
  IF G = {} THEN { << >> }
  ELSE UNION { { << k >> \o s : s \in Orders(G \ {k}) } : k \in G }

\* the orders of the positions that have from lo to hi later documents:
\* those of one timestamp have the same number and come in any order
RECURSIVE OrdersBetween(_, _, _)
OrdersBetween(counts, lo, hi) ==
  IF lo > hi THEN { << >> }
  ELSE IF lo = hi THEN Orders({ c[1] : c \in { x \in counts : x[2] = lo } })
  ELSE LET mid == (lo + hi) \div 2
       IN  { a \o b : a \in OrdersBetween(counts, lo, mid),
                      b \in OrdersBetween(counts, mid + 1, hi) }

\* .sort({ timestamp: -1 }): the orders of the positions K with later
\* timestamps first; documents of one timestamp come in any order
SortOrders(K) == OrdersBetween(LaterCounts(K), 0, Cardinality(K) - 1)

\* skip = (page - 1) * limit with page * limit instead
SkipOfNextPage(q) == PageOf(q) * LimitOf(q)

\* const skip = (page - 1) * limit
SkipOf(q) == (PageOf(q) - 1) * LimitOf(q)

\* .skip(skip).limit(limit) on the sorted positions
PageSlice(order, skip, limit) ==
  LET last == IF skip + limit < Len(order) THEN skip + limit ELSE Len(order)
  IN  [ i \in 1..(IF last > skip THEN last - skip ELSE 0) |-> db[order[skip + i]] ]

\* Math.ceil(total / limit)
CeilDiv(total, limit) == (total + limit - 1) \div limit

\* GET /api/time-entries, the find and the count settling on one collection
ListEntries(q) ==
  /\ IF ~ListChainValid(q)
     THEN res' = [route |-> "list", status |-> 400, query |-> q, entries |-> << >>]
     ELSE \E order \in SortOrders(ListMatching(q)) :
            LET skip == SkipOf(q)
                entries == PageSlice(order, skip, LimitOf(q))
                total == Cardinality(ListMatching(q))
            IN  res' = [ route |-> "list", status |-> 200, query |-> q,
                         entries |-> entries,
                         pagination |->
                           [ currentPage |-> PageOf(q),
                             totalPages |-> CeilDiv(total, LimitOf(q)),
                             totalEntries |-> total,
                             hasNext |-> skip + Len(entries) < total,
                             hasPrev |-> PageOf(q) > 1 ] ]
  /\ UNCHANGED << extensionVars, db, nextId >>

\* stored entries to list: two of one timestamp, one of a later one
ListDocs ==
  { [ id |-> 0, hostname |-> "github.com", url |-> "", title |-> "",
      duration |-> 2, category |-> c, timestamp |-> DateOf(day, ShortMs),
      userId |-> "", updatedAt |-> DateOf(day, ShortMs) ] :
      c \in {"productive", "neutral"}, day \in {1, 2} }
  \ { [ id |-> 0, hostname |-> "github.com", url |-> "", title |-> "",
        duration |-> 2, category |-> "productive",
        timestamp |-> DateOf(2, ShortMs),
        userId |-> "", updatedAt |-> DateOf(2, ShortMs) ] }

RECURSIVE ListCollections(_)
ListCollections(n) ==
  IF n = 0 THEN { << >> }
  ELSE LET smaller == ListCollections(n - 1)
       IN  smaller \cup { Append(c, [doc EXCEPT !.id = Len(c) + 1]) :
                            c \in { x \in smaller : Len(x) = n - 1 },
                            doc \in ListDocs }

\* n entries stored one after the other, a millisecond apart, every other
\* one neutral
Stored(n) ==
  [ k \in 1..n |->
      [ id |-> k, hostname |-> "github.com", url |-> "", title |-> "",
        duration |-> 2,
        category |-> IF k % 2 = 0 THEN "neutral" ELSE "productive",
        timestamp |-> DateOf(1, k), userId |-> "", updatedAt |-> DateOf(1, k) ] ]

\* the queries of the list: page and limit absent, in range and out of
\* range, with and without a filter
ListQueries ==
  { [NoQuery EXCEPT !.has = has,
                    !.page = IF "page" \in has THEN pg ELSE @,
                    !.limit = IF "limit" \in has THEN lm ELSE @,
                    !.category = IF "category" \in has THEN "neutral" ELSE @] :
      has \in SUBSET {"page", "limit", "category"},
      pg \in {"0", "1", "2", "3"},
      lm \in {"0", "2", "50", "100", "101"} }

InitList ==
  /\ ExtensionIdle
  /\ db \in ListCollections(MaxListed) \cup { Stored(ManyEntries) }
  /\ nextId = Len(db) + 1
  /\ res = NoResponse

NextList == \E q \in ListQueries : ListEntries(q)

SpecList == InitList /\ [][NextList]_vars

\* ------------------------------------------- backend: the daily breakdown
\* $dateToString with '%Y-%m-%d': the UTC day of the timestamp
DateString(timestamp) == timestamp.day

\* the _id values of the first $group: the (date, category) pairs of the
\* matching documents
DailyGroupIds(q) ==
  { << DateString(db[k].timestamp), db[k].category >> : k \in Matching(q) }

\* the totalTime and entryCount the first $group accumulates for an _id
DailySubtotal(q, id) ==
  LET G == { k \in Matching(q) : /\ DateString(db[k].timestamp) = id[1]
                                 /\ db[k].category = id[2] }
  IN  [ category |-> id[2], totalTime |-> SumDuration(G),
        entryCount |-> Cardinality(G) ]

\* { $sort: { '_id.date': 1 } }: the orders of the groups with earlier dates
\* first; the groups of one date come in any order
SortedGroups(q) ==
  { s \in Orders(DailyGroupIds(q)) :
      \A i \in 1..(Len(s) - 1) : s[i][1] <= s[i + 1][1] }

\* $push: the subtotals of a date in the order its groups arrive in
RECURSIVE Pushed(_, _, _)
Pushed(q, sorted, date) ==
  IF sorted = << >> THEN << >>
  ELSE ( IF Head(sorted)[1] = date
         THEN << DailySubtotal(q, Head(sorted)) >> ELSE << >> )
       \o Pushed(q, Tail(sorted), date)

\* the second $group and the $project: one document for every date, and
\* $group puts its output documents in no particular order
DailyData(q) ==
  UNION { { [ i \in 1..Len(dates) |->
                [ date |-> dates[i],
                  categories |-> Pushed(q, sorted, dates[i]) ] ] :
              dates \in Orders({ id[1] : id \in DailyGroupIds(q) }) } :
          sorted \in SortedGroups(q) }

\* GET /api/analytics/daily
GetDaily(q) ==
  /\ \E dailyData \in DailyData(q) :
       res' = [route |-> "daily", status |-> 200, query |-> q,
               dailyData |-> dailyData]
  /\ UNCHANGED << extensionVars, db, nextId >>

NextDaily == \E q \in AnalyticsQueries : GetDaily(q)

SpecDaily == InitStored /\ [][NextDaily]_vars

\* ------------------------------------------------------ dashboard: the page
\* getDefaultCategories(): the object as a function from its keys
ProductiveSites ==
  { "github.com", "stackoverflow.com", "developer.mozilla.org",
    "docs.google.com", "codepen.io", "medium.com", "linkedin.com",
    "coursera.org", "udemy.com", "khan-academy.org", "w3schools.com",
    "freecodecamp.org" }
UnproductiveSites ==
  { "facebook.com", "instagram.com", "twitter.com", "youtube.com",
    "netflix.com", "tiktok.com", "reddit.com", "twitch.tv", "pinterest.com",
    "snapchat.com" }
getDefaultCategories ==
  [ h \in ProductiveSites \cup UnproductiveSites |->
      IF h \in ProductiveSites THEN "productive" ELSE "unproductive" ]

\* Days are counted from Thursday 1 January 1970 and the page runs in UTC.
\* startOfDay.getDay(): 0 is Sunday
getDay(day) == (day + 4) % 7

\* the day of new Date(now.getFullYear(), now.getMonth(), 1), for the days of
\* January to March 1970
StartOfMonth(day) == IF day < 31 THEN 0 ELSE IF day < 59 THEN 31 ELSE 59

\* the test of the filter callback of filterEntriesByTimeRange (lines 95-105)
InTimeRange(entry, currentTimeRange, day) ==
  CASE currentTimeRange = "today" -> entry.date >= day
    [] currentTimeRange = "week" -> entry.date >= day - getDay(day)
    [] currentTimeRange = "month" -> entry.date >= StartOfMonth(day)
    [] OTHER -> TRUE

\* the positions of a set in increasing order: Array.prototype.filter keeps
\* the order of the array
RECURSIVE Ascending(_)
Ascending(S) ==
  IF S = {} THEN << >>
  ELSE LET first == CHOOSE x \in S : \A y \in S : x <= y
       IN  << first >> \o Ascending(S \ {first})

\* filterEntriesByTimeRange(entries): the positions of the entries it keeps
filterEntriesByTimeRange(entries, currentTimeRange, day) ==
  Ascending({ i \in 1..Len(entries) :
                InTimeRange(entries[i], currentTimeRange, day) })

\* the sum of entry.duration over the filtered entries of a category
RECURSIVE CategoryTime(_, _, _)
CategoryTime(entries, filtered, category) ==
  IF filtered = << >> THEN 0
  ELSE LET entry == entries[Head(filtered)]
       IN  (IF categorizeWebsite(getDefaultCategories, entry.hostname) = category
            THEN entry.duration ELSE 0)
           + CategoryTime(entries, Tail(filtered), category)

\* updateStats(): the productivityScore it shows
updateStats(entries, filtered) ==
  LET totalProductiveTime == CategoryTime(entries, filtered, "productive")
      totalUnproductiveTime == CategoryTime(entries, filtered, "unproductive")
      totalTime == totalProductiveTime + totalUnproductiveTime
  IN  ProductivityScore(totalProductiveTime, totalTime)

\* loadData(): the page after it, nothing being stored under
\* 'websiteCategories'
loadData(page, stored, day) ==
  LET filtered == filterEntriesByTimeRange(stored, page.currentTimeRange, day)
  IN  [ page EXCEPT !.open = TRUE, !.stored = stored, !.timeEntries = stored,
                    !.filteredEntries = filtered,
                    !.productivityScore = updateStats(stored, filtered) ]

\* the filter callback of filterTable (lines 312-314)
MatchesFilters(entry, dateValue, typeValue) ==
  LET matchesDate == dateValue = Null \/ entry.date = dateValue
      matchesType ==
        \/ typeValue = "all"
        \/ categorizeWebsite(getDefaultCategories, entry.hostname) = typeValue
  IN  matchesDate /\ matchesType

Range(s) == { s[i] : i \in 1..Len(s) }

\* splice(index, 1) of an array, index counted from 0
Splice(entries, index) ==
  IF index + 1 > Len(entries) THEN entries
  ELSE SubSeq(entries, 1, index) \o SubSeq(entries, index + 2, Len(entries))

MaxStored == 2
TimeRanges == {"today", "week", "month", "all"}
TypeValues == {"all", "productive", "unproductive", "neutral"}
\* the day the page is open: a Tuesday, the tenth of its month
DashboardDay == FirstDay + 8
DaysAgo == {0, 1, 3, 10}
StoredEntries(day) ==
  [ hostname : {"github.com", "facebook.com", "z.org"},
    duration : {30, 60},
    date : { day - ago : ago \in DaysAgo } ]

\* the constructor and init(): the page is opened
OpenDashboard ==
  /\ ~dashboard.open
  /\ dashboard' = loadData(dashboard, dashboard.stored, today)
  /\ UNCHANGED << backgroundVars, backendVars >>

\* the change listener of timeRangeSelector (lines 17-20)
ChangeTimeRange(value) ==
  /\ dashboard.open
  /\ dashboard' = loadData([dashboard EXCEPT !.currentTimeRange = value],
                           dashboard.stored, today)
  /\ UNCHANGED << backgroundVars, backendVars >>

\* filterTable(), called when dateFilter or typeFilter changes to the values
\* given
filterTable(dateValue, typeValue) ==
  /\ dashboard.open
  /\ << dateValue, typeValue >> # << dashboard.dateFilter, dashboard.typeFilter >>
  /\ LET inRange == filterEntriesByTimeRange(dashboard.timeEntries,
                                             dashboard.currentTimeRange, today)
         filtered ==
           Ascending({ i \in Range(inRange) :
                         MatchesFilters(dashboard.timeEntries[i],
                                        dateValue, typeValue) })
     IN  dashboard' =
           [ dashboard EXCEPT
               !.dateFilter = dateValue, !.typeFilter = typeValue,
               !.filteredEntries = filtered,
               !.productivityScore = updateStats(dashboard.timeEntries, filtered) ]
  /\ UNCHANGED << backgroundVars, backendVars >>

\* deleteEntry(index) from the Delete button of a row of the table, with the
\* callback of chrome.storage.local.set, which runs loadData()
deleteEntry(index) ==
  /\ dashboard.open
  /\ index + 1 \in 1..Len(dashboard.filteredEntries)
  /\ LET timeEntries == Splice(dashboard.timeEntries, index)
     IN  dashboard' = loadData(dashboard, timeEntries, today)
  /\ UNCHANGED << backgroundVars, backendVars >>

InitDashboard ==
  /\ ExtensionIdleOn(DashboardDay)
  /\ \E n \in 0..MaxStored : \E stored \in [1..n -> StoredEntries(DashboardDay)] :
       dashboard = [NoDashboard EXCEPT !.stored = stored]
  /\ db = << >> /\ nextId = 1 /\ res = NoResponse

NextDashboard ==
  \/ OpenDashboard
  \/ \E value \in TimeRanges : ChangeTimeRange(value)
  \/ \E typeValue \in TypeValues :
       \E dateValue \in {Null, today} :
         filterTable(dateValue, typeValue)
  \/ \E index \in 0..(MaxStored - 1) : deleteEntry(index)

SpecDashboard == InitDashboard /\ [][NextDashboard]_vars

\* ----------------------------------------------------------- properties
\* the listener invocations that called saveTimeEntry
Saves == { i \in 1..Len(handlers) : handlers[i].sid # Null }

\* the seconds that the invocations of S passed to saveTimeEntry, summed
RECURSIVE SumTimeSpent(_)
SumTimeSpent(S) ==
  IF S = {} THEN 0
  ELSE LET i == CHOOSE j \in S : TRUE
       IN  handlers[i].timeSpent + SumTimeSpent(S \ {i})

\* C1: every opened session is passed to saveTimeEntry at most once, so the
\* recorded durations add up to no more than the time a session was open.
C1_RecordedAtMostOnce ==
  /\ \A i, j \in Saves : i # j => handlers[i].sid # handlers[j].sid
  /\ SumTimeSpent(Saves) * MsPerSecond <= trackedMs

\* C2: once every listener has finished, a session that is open is the one
\* of the tab named by the event delivered last.
C2_LastEventWins ==
  ( /\ AllDone
    /\ isTracking
    /\ Len(handlers) > 0
    /\ handlers[Len(handlers)].run = "handleTabChange" )
  => currentTab.id = handlers[Len(handlers)].tabId

\* the invocations inside saveTimeEntry that have not written the bucket yet
Saving == { i \in Saves : ~handlers[i].wrote }

\* C3: a session closed less than a second after it was opened is never
\* passed to saveTimeEntry or sent: the step that closes it leaves every
\* day bucket as it was, and no invocation saves or sends that session.
C3_ShortSessionDiscarded ==
  /\ [](\A i \in Saves : handlers[i].ms >= MsPerSecond)
  /\ [](\A i \in 1..Len(handlers) :
          (handlers[i].attempts > 0 \/ handlers[i].wrote) => i \in Saves)
  /\ [][ (Tracking /\ ~isTracking' /\ now' - startTime < MsPerSecond)
         => /\ timeData' = timeData
            /\ \A i \in 1..Len(handlers') : handlers'[i].sid # curSid ]_vars

\* a session was closed half a second after it was opened
C3_Witness == \E k \in 1..Len(closed) : closed[k].ms = ShortMs

\* C4: every session that stopTracking closes a second or more after it was
\* opened has been passed to saveTimeEntry.
C4_ThresholdSessionSaved ==
  \A k \in 1..Len(closed) :
    closed[k].ms >= MsPerSecond
      => \E i \in Saves : handlers[i].sid = closed[k].sid

\* C5: when every saveTimeEntry call has written, the bucket of the day
\* holds, for each domain, one visit per call and the sum of their seconds.
C5_NoLostUpdate ==
  Saving = {} =>
    \A i \in Saves :
      LET h == handlers[i]
          W == { j \in Saves : handlers[j].domain = h.domain /\ handlers[j].key = h.key }
      IN  /\ h.key \in DOMAIN timeData
          /\ h.domain \in DOMAIN timeData[h.key]
          /\ timeData[h.key][h.domain].visits = Cardinality(W)
          /\ timeData[h.key][h.domain].totalTime = SumTimeSpent(W)

C7_AccumulatesExactly ==
  Saving = {} =>
    \A key \in DOMAIN timeData \cup { handlers[i].key : i \in Saves } :
      \A dm \in { getDomain(TabInfo(t).url) : t \in Tabs } :
        LET W == { j \in Saves : handlers[j].domain = dm /\ handlers[j].key = key }
        IN  IF W = {}
            THEN key \in DOMAIN timeData => dm \notin DOMAIN timeData[key]
            ELSE /\ key \in DOMAIN timeData
                 /\ dm \in DOMAIN timeData[key]
                 /\ timeData[key][dm].visits = Cardinality(W)
                 /\ timeData[key][dm].totalTime = SumTimeSpent(W)
                 /\ \A j \in W : timeData[key][dm].lastVisit >= handlers[j].at
                 /\ timeData[key][dm].category = getWebsiteCategory(categories, dm)
                 /\ timeData[key][dm].title # ""

\* a domain recorded by two saves on the same day
C7_Witness ==
  \E key \in DOMAIN timeData :
    \E dm \in DOMAIN timeData[key] : timeData[key][dm].visits = 2

\* C8: a finished run of cleanupOldData that took its cutoff at time T has
\* removed exactly the day buckets whose date (that day's UTC midnight) is
\* earlier than T minus 30 days, has left every other bucket and the
\* categories as they were, and would remove nothing if run again at T.
C8_CleanupExact ==
  cleanup.pc = "done" =>
    LET T == cleanup.before.at
        \* midnight of day is before T - 30 d: T.ms is the time of day of T
        Expired(day) == day < T.day - 30 \/ (day = T.day - 30 /\ 0 < T.ms)
        kept == { day \in DOMAIN cleanup.before.timeData : ~Expired(day) }
    IN  /\ timeData = [ day \in kept |-> cleanup.before.timeData[day] ]
        /\ categories = cleanup.before.categories
        /\ ToRemove(KeysOf(timeData, categories), Cutoff(T.day, T.ms)) = {}

\* a run at midnight sharp removed a bucket and kept the bucket dated
\* exactly 30 days before
C8_Witness ==
  /\ cleanup.pc = "done"
  /\ cleanup.before.at.ms = 0
  /\ cleanup.before.at.day - 30 \in DOMAIN timeData
  /\ DOMAIN timeData # DOMAIN cleanup.before.timeData
  /\ categories = defaultCategories

\* C9: the stored productive and unproductive lists never share a hostname,
\* and when the background stores the lists of an add, the hostname is in
\* the list it was added to and not in the other.
C9_CategoriesDisjoint ==
  /\ [](SeqRange(StoredCategories(categories).productive)
          \cap SeqRange(StoredCategories(categories).unproductive) = {})
  /\ [][ \A i \in 1..Len(editors) :
           (editors[i].pc = "send" /\ editors'[i].pc = "done" /\ editors[i].op = "add")
           => /\ editors[i].website \in SeqRange(categories'[editors[i].category])
              /\ editors[i].website \notin
                   SeqRange(categories'[otherCategory(editors[i].category)]) ]_vars

\* github.com, productive by default, has been moved to the unproductive
\* list while another invocation of the editor was in progress
C9_Witness ==
  /\ "github.com" \in SeqRange(categories.unproductive)
  /\ "github.com" \notin SeqRange(categories.productive)
  /\ \E i \in 1..Len(editors) : editors[i].pc = "send"

\* C10: a hostname that is an entry of the productive list is classified
\* productive, also when it is, or contains, an entry of the unproductive list.
C10_ProductiveEntry ==
  classify.domain \in SeqRange(StoredCategories(categories).productive)
    => classify.answer = "productive"

\* a productive entry that contains an unproductive entry was classified
C10_Witness ==
  /\ classify.domain = "mail.x.io"
  /\ "mail.x.io" \in SeqRange(StoredCategories(categories).productive)
  /\ "x.io" \in SeqRange(StoredCategories(categories).unproductive)
  /\ classify.answer = "productive"

\* C11: a hostname that is an entry of the unproductive list and not an entry
\* of the productive list is classified unproductive, whatever the two lists.
C11_UnproductiveEntry ==
  ( /\ classify.domain \in SeqRange(StoredCategories(categories).unproductive)
    /\ classify.domain \notin SeqRange(StoredCategories(categories).productive) )
    => classify.answer = "unproductive"

\* a TimeEntry as the data model has it: a hostname that is not empty once
\* trimmed, an integer duration of at least 1, a category of the enum
WellFormedField(body, f) ==
  CASE f = "hostname" -> trim(body.hostname) # ""
    [] f = "duration" -> IsIntString(body.duration) /\ ToNumber(body.duration) >= 1
    [] f = "category" -> body.category \in CategoryEnum
    [] OTHER -> TRUE

WellFormedEntry(body) ==
  Required \subseteq body.has /\ \A f \in Required : WellFormedField(body, f)

\* the request is answered with the validation error and stores nothing
ValidationError == res'.status = 400 /\ db' = db

\* C12: every stored entry has a duration of at least 1, a category of
\* the enum and a hostname that is not empty, and a create, bulk-create or
\* update request that is not well-formed is answered with a validation
\* error and leaves the stored entries as they were.
C12_ValidatedWrites ==
  /\ [](\A k \in 1..Len(db) : /\ db[k].duration >= 1
                               /\ db[k].category \in CategoryEnum
                               /\ db[k].hostname # "")
  /\ [][ /\ \A body \in CreateBodies :
              (CreateEntry(body) /\ ~WellFormedEntry(body)) => ValidationError
         /\ \A entries \in Batches(MaxEntries) :
              ( /\ BulkCreate(entries)
                /\ \E k \in 1..Len(entries) : ~WellFormedEntry(entries[k]) )
                => ValidationError
         /\ \A id \in Ids, body \in UpdateBodies :
              ( /\ UpdateEntry(id, body)
                /\ \E f \in body.has : ~WellFormedField(body, f) )
                => ValidationError ]_vars

\* C13: a bulk request of 101 entries is answered with the validation error
\* and stores nothing, as is an empty one; a bulk request of 100 well-formed
\* entries is answered 201 with 100 created documents, which are the 100
\* documents added to the collection.
C13_BulkLimit ==
  [][ \A entries \in LargeBatches :
        BulkCreate(entries) =>
          /\ Len(entries) \notin 1..100 => ValidationError
          /\ ( Len(entries) = 100 /\ \A k \in 1..100 : WellFormedEntry(entries[k]) )
               => /\ res'.status = 201
                  /\ Len(res'.entries) = 100
                  /\ db' = db \o res'.entries
                  /\ \A k \in 1..100 : res'.entries[k].id \notin DocIds ]_vars

\* a batch of 101 entries was refused after a batch of 100 had been stored
C13_Witness ==
  /\ res.route = "bulk" /\ res.sent = 101 /\ res.status = 400
  /\ Len(db) = 100

\* C17: an update leaves the timestamp, the userId and the url of every
\* stored entry as they were, whatever its body; a well-formed update or a
\* delete with the id of no stored entry is answered not-found and changes
\* no entry.
C17_UpdateFrame ==
  [][ /\ \A id \in Ids, body \in UpdateBodies :
           UpdateEntry(id, body) =>
             /\ Len(db') = Len(db)
             /\ \A k \in 1..Len(db) : /\ db'[k].id = db[k].id
                                      /\ db'[k].timestamp = db[k].timestamp
                                      /\ db'[k].userId = db[k].userId
                                      /\ db'[k].url = db[k].url
             /\ ( /\ id # BadId /\ id \notin DocIds
                  /\ \A f \in body.has : WellFormedField(body, f) )
                  => (res'.status = 404 /\ db' = db)
      /\ \A id \in Ids :
           (DeleteEntry(id) /\ id # BadId /\ id \notin DocIds)
             => (res'.status = 404 /\ db' = db) ]_vars

\* round(100 * p / t), a half rounded up
RoundedPercent(p, t) == (200 * p + t) \div (2 * t)

\* C14: the summary's totalTime is the sum of the matching durations, its
\* productiveTime the sum of the matching productive durations, and its
\* productivityScore round(100 * productiveTime / totalTime).
C14_SummaryTotals ==
  res.route = "summary" =>
    LET K == Matching(res.query)
        P == { k \in K : db[k].category = "productive" }
    IN  /\ res.summary.totalTime = SumDuration(K)
        /\ res.summary.productiveTime = SumDuration(P)
        /\ K # {} => res.summary.productivityScore =
                        RoundedPercent(SumDuration(P), SumDuration(K))

\* C15: the summary's productivityScore is an integer from 0 to 100, and 0
\* when no entry matches the filter.
C15_ScoreRange ==
  res.route = "summary" =>
    /\ res.summary.productivityScore \in 0..100
    /\ Matching(res.query) = {} => res.summary.productivityScore = 0

\* a summary over stored entries none of which matches the filter
C15_Witness ==
  /\ res.route = "summary" /\ db # << >> /\ Matching(res.query) = {}
  /\ res.summary.productivityScore = 0 /\ res.summary.totalTime = 0

\* the number of entries of page p when N entries are listed S to a page
PageLength(N, S, p) ==
  LET last == IF p * S < N THEN p * S ELSE N
  IN  IF last > (p - 1) * S THEN last - (p - 1) * S ELSE 0

\* C16: with N matching entries, a limit L from 1 to 100 and a page p >= 1
\* the list is served; its page holds the entries at positions (p-1)L+1 to
\* min(pL, N) of the order with later timestamps first, totalPages is
\* ceil(N/L), totalEntries is N, hasNext says pL < N and hasPrev says p > 1.
C16_Pagination ==
  LET q == res.query
      K == ListMatching(q)
      N == Cardinality(K)
      L == LimitOf(q)
      p == PageOf(q)
      e == res.entries
      page == res.pagination
  IN  (res.route = "list" /\ L \in 1..100 /\ p >= 1) =>
        /\ res.status = 200
        /\ Len(e) = PageLength(N, L, p)
        /\ \A i \in 1..Len(e) :
             /\ \E k \in K : db[k] = e[i]
             /\ \A j \in 1..Len(e) : e[j].id = e[i].id => j = i
             /\ Cardinality({ k \in K : DateLess(e[i].timestamp, db[k].timestamp) })
                  <= (p - 1) * L + i - 1
             /\ Cardinality({ k \in K : DateLessOrEqual(e[i].timestamp, db[k].timestamp) })
                  >= (p - 1) * L + i
        /\ page.currentPage = p
        /\ page.totalPages * L >= N /\ (page.totalPages - 1) * L < N
        /\ page.totalEntries = N
        /\ page.hasNext <=> p * L < N
        /\ page.hasPrev <=> p > 1

\* the third page of 120 entries listed 50 to a page
C16_Witness ==
  /\ res.route = "list" /\ res.status = 200
  /\ LimitOf(res.query) = 50 /\ PageOf(res.query) = 3
  /\ res.pagination.totalEntries = 120
  /\ Len(res.entries) = 20
  /\ ~res.pagination.hasNext /\ res.pagination.hasPrev

\* C19 as stated: a limit above 100 is served 100 entries to a page, a limit
\* below 1 is served one entry to a page, and no response holds more than
\* 100 entries.
C19_LimitClamped ==
  LET q == res.query
      N == Cardinality(ListMatching(q))
      limit == ToNumber(q.limit)
      size == IF limit > 100 THEN 100 ELSE 1
  IN  res.route = "list" =>
        /\ ("limit" \in q.has /\ limit \notin 1..100 /\ PageOf(q) >= 1) =>
             /\ res.status = 200
             /\ Len(res.entries) = PageLength(N, size, PageOf(q))
        /\ Len(res.entries) <= 100

\* C19: a list query whose limit is not from 1 to 100 is refused as a
\* validation error and answered no entries, and no response holds more
\* than 100 entries.
C19_LimitRejected ==
  res.route = "list" =>
    /\ ("limit" \in res.query.has /\ ToNumber(res.query.limit) \notin 1..100) =>
         (res.status = 400 /\ res.entries = << >>)
    /\ Len(res.entries) <= 100

\* a limit of 101 was refused while 120 entries were stored
C19_Witness ==
  /\ res.route = "list" /\ "limit" \in res.query.has /\ res.query.limit = "101"
  /\ res.status = 400 /\ Len(db) = 120

\* C20: the daily breakdown holds one element for every date that has
\* matching entries, the elements in ascending order of date, each with one
\* subtotal for every category present on that date, whose totalTime is the
\* sum of the durations and whose entryCount the number of the matching
\* entries of that date and category.
C20_DailyBreakdown ==
  res.route = "daily" =>
    LET K == Matching(res.query)
        d == res.dailyData
        On(date) == { k \in K : db[k].timestamp.day = date }
    IN  /\ { d[i].date : i \in 1..Len(d) } = { db[k].timestamp.day : k \in K }
        /\ \A i, j \in 1..Len(d) : i < j => d[i].date < d[j].date
        /\ \A i \in 1..Len(d) :
             LET c == d[i].categories
             IN  /\ { c[j].category : j \in 1..Len(c) }
                      = { db[k].category : k \in On(d[i].date) }
                 /\ \A j, n \in 1..Len(c) : c[j].category = c[n].category => j = n
                 /\ \A j \in 1..Len(c) :
                      LET G == { k \in On(d[i].date) : db[k].category = c[j].category }
                      IN  /\ c[j].totalTime = SumDuration(G)
                          /\ c[j].entryCount = Cardinality(G)

\* C18: a storage call that fails in saveTimeEntry or in cleanupOldData is
\* an error for the caller: the promise the function returned to
\* stopTracking, or to the alarm listener, is rejected.
C18_FailureSurfaced ==
  /\ \A i \in 1..Len(handlers) :
       handlers[i].failed => handlers[i].settled = "rejected"
  /\ cleanup.failed => cleanup.settled = "rejected"

\* listener invocation i takes the step
Stepping(i) ==
  /\ i \in 1..Len(handlers')
  /\ i <= Len(handlers) => handlers'[i] # handlers[i]

\* C21: while a session is open, no step of a tabs.onUpdated listener for the
\* tab of that session closes the session or changes its start time.
C21_NavigationKeepsSession ==
  [][ \A i \in 1..MaxEvents :
        ( /\ Stepping(i)
          /\ handlers'[i].event = "onUpdated"
          /\ Tracking
          /\ handlers'[i].tabId = currentTab.id )
        => /\ curSid' = curSid
           /\ startTime' = startTime
           /\ closed' = closed
           /\ handlers'[i].pc \notin {"saveGet", "saveCategory", "saveSet"} ]_vars

\* C22: a listener of a focus-gained event for another tab, delivered while
\* the send of an earlier listener has not settled, opens its session without
\* waiting for a send: it is never suspended on a fetch and has awaited none.
C22_SendDetached ==
  \A i \in 1..Len(handlers) :
    ( /\ handlers[i].event = "onFocusChanged"
      /\ handlers[i].run = "handleTabChange"
      /\ handlers[i].pending
      /\ handlers[i].tabId # Null
      /\ handlers[i].url # TabInfo(handlers[i].tabId).url )
    => (handlers[i].pc # "fetch" /\ handlers[i].attempts = 0)

\* a url of a browser page, or no url
InternalPage(url) ==
  \/ url = ""
  \/ StartsWith(url, "chrome://")
  \/ StartsWith(url, "chrome-extension://")
  \/ StartsWith(url, "about:")
  \/ StartsWith(url, "devtools://")

\* C23: no session is ever open on a tab that shows a browser page or has no
\* url.
C23_NoInternalSession == isTracking => ~InternalPage(currentTab.url)

\* C24: no session is ever open on a tab whose url cannot be parsed, and a
\* listener whose tab lookup fails ends at once with the tracker idle.
C24_MalformedSkipped ==
  /\ [](isTracking => Hostname(currentTab.url) # "")
  /\ [][ \A i \in 1..MaxEvents :
           TabsGetRejected(i) => (~isTracking' /\ handlers'[i].pc = "done") ]_vars

\* C25: a hostname that contains no entry of either list is classified by
\* the keywords: productive with a productivity keyword, unproductive with a
\* distraction keyword, neutral with neither; a hostname that is an entry of
\* the productive list is productive, and one that is an entry of the
\* unproductive list and contains no productive entry is unproductive.
C25_KeywordFallback ==
  LET lists == StoredCategories(categories)
      d == classify.domain
  IN  classify.answer # "none" =>
        /\ ( /\ ~SomeIncluded(lists.productive, d)
             /\ ~SomeIncluded(lists.unproductive, d) )
             => classify.answer = KeywordCategory(d)
        /\ d \in SeqRange(lists.productive) => classify.answer = "productive"
        /\ ( /\ d \in SeqRange(lists.unproductive)
             /\ ~SomeIncluded(lists.productive, d) )
             => classify.answer = "unproductive"

\* C26: a stopTracking() called while no session is open returns at once: it
\* calls no saveTimeEntry, so nothing is stored or sent, and leaves
\* isTracking, currentTab, startTime and every day bucket as they were.
C26_IdleCloseNoOp ==
  [][ \A i \in 1..MaxEvents :
        ( /\ Stepping(i)
          /\ i > Len(handlers) \/ handlers[i].pc = "query"
          /\ handlers'[i].pc # "query"
          /\ ~Tracking )
        => /\ UNCHANGED << isTracking, currentTab, startTime >>
           /\ UNCHANGED << timeData, categories, lastOutcome, closed >>
           /\ handlers'[i].pc = AfterStop(handlers'[i])
           /\ ~handlers'[i].wrote /\ handlers'[i].attempts = 0
           /\ ~handlers'[i].failed /\ handlers'[i].sid = Null ]_vars

\* the browser lost focus twice, a long while apart, with no session opened
C26_Witness ==
  /\ Len(handlers) = 2 /\ nSessions = 0 /\ ~isTracking
  /\ now > LongMs
  /\ \A i \in 1..2 : handlers[i].run = "stopTracking" /\ handlers[i].pc = "done"

\* the time the entries of the table spend in a category
FilteredTime(category) ==
  CategoryTime(dashboard.timeEntries, dashboard.filteredEntries, category)

\* C27: the productivity score the dashboard shows is the share of the whole
\* time of the shown entries, neutral time included, that is productive,
\* rounded as the server summary rounds it
C27_ScoreOverAllTime ==
  dashboard.open =>
    dashboard.productivityScore =
      ProductivityScore(FilteredTime("productive"),
                        FilteredTime("productive") + FilteredTime("unproductive")
                          + FilteredTime("neutral"))

\* C30: deleteEntry(index) from the button of a row removes from the stored
\* timeEntries the entry that row shows, and no other
C30_DeleteRemovesRow ==
  [][\A index \in 0..(MaxStored - 1) :
       deleteEntry(index) =>
         dashboard'.stored =
           Splice(dashboard.stored, dashboard.filteredEntries[index + 1] - 1)]_vars

\* the window-focus listener has handled a focus-lost event and no
\* focus-gained event has been delivered since
Unfocused ==
  \E i \in 1..Len(handlers) :
    /\ handlers[i].event = "onFocusChanged"
    /\ handlers[i].run = "stopTracking"
    /\ handlers[i].pc = "done"
    /\ \A j \in (i + 1)..Len(handlers) :
         ~(handlers[j].event = "onFocusChanged"
           /\ handlers[j].run = "handleTabChange")

\* C28: while the browser is unfocused no session is open, whatever tab
\* event is delivered
C28_IdleWhileUnfocused == Unfocused => ~isTracking

\* C29: in every state, at every await point of overlapping listeners too,
\* isTracking is true exactly when currentTab is not null and exactly when
\* startTime is not null
C29_TrackingVariablesAgree ==
  /\ isTracking <=> currentTab # NoTab
  /\ isTracking <=> startTime # Null

\* a session is open while two listeners wait at an await
C29_Witness ==
  /\ isTracking
  /\ \E i, j \in 1..Len(handlers) :
       i # j /\ handlers[i].pc # "done" /\ handlers[j].pc # "done"

====
